---- MODULE Spec2Model ----
(***************************************************************************)
(* Model of the HumanitZ pak reader: footer reader, primary index parser,  *)
(* directory tree decoder, entry codec and content extractor               *)
(* (src/src/pak_reader.py, src/utils.py, src/extract_enums.py).            *)
(*                                                                         *)
(* Bytes are the integers 0..255, byte strings are sequences of bytes and  *)
(* decoded text is a sequence of code points.  A stream position is the    *)
(* number of bytes before the cursor, as Python's tell() reports it.       *)
(***************************************************************************)
EXTENDS Integers, Sequences, FiniteSets, TLC

\* ------------------------------------------------------------------------
\* Byte strings and Python's stream reads
\* ------------------------------------------------------------------------

Min(a, b) == IF a < b THEN a ELSE b

Max(a, b) == IF a > b THEN a ELSE b

Zeros(n) == [i \in 1..n |-> 0]

\* data[from:to] of Python for 0 <= from: the bytes at positions from..to-1,
\* clipped at the end of the data.
Slice(data, from, to) ==
    LET e == Min(to, Len(data))
    IN  IF from >= e THEN << >> ELSE [i \in 1..(e - from) |-> data[from + i]]

\* stream.read(n) at cursor pos: at most n bytes, everything up to the end
\* of the stream when n is negative, nothing when the cursor is past the end.
StreamRead(data, pos, n) ==
    IF n < 0 \/ n >= Len(data) - pos
    THEN Slice(data, pos, Len(data)) ELSE Slice(data, pos, pos + n)

\* struct.unpack('<i', b): a signed little-endian 32-bit integer.
UnpackI32(b) ==
    b[1] + 256 * b[2] + 65536 * b[3]
      + 16777216 * (IF b[4] >= 128 THEN b[4] - 256 ELSE b[4])

\* The largest and the smallest integer the model represents.  A decoded
\* value outside this range is represented by the nearer end of the range,
\* which keeps every comparison with a value inside the range as in Python.
INT_MAX == 2147483647

INT_MIN == (-2147483647) - 1

\* struct.unpack('<I', b): an unsigned little-endian 32-bit integer.
UnpackU32(b) ==
    IF b[4] >= 128 THEN INT_MAX
    ELSE b[1] + 256 * b[2] + 65536 * b[3] + 16777216 * b[4]

\* struct.unpack('<q', b): a signed little-endian 64-bit integer.
UnpackI64(b) ==
    LET high == UnpackI32(SubSeq(b, 5, 8))
        low == SubSeq(b, 1, 4)
    IN  IF high = 0 /\ low[4] < 128 THEN UnpackU32(low)
        ELSE IF high = -1 /\ low[4] >= 128 THEN UnpackI32(low)
        ELSE IF high >= 0 THEN INT_MAX
        ELSE INT_MIN

\* struct.unpack('<Q', b): an unsigned little-endian 64-bit integer.
UnpackU64(b) ==
    IF UnpackI32(SubSeq(b, 5, 8)) = 0 /\ b[4] < 128
    THEN UnpackU32(SubSeq(b, 1, 4)) ELSE INT_MAX

\* Little-endian encodings, used to lay out the containers of the model.
PackI32(n) ==
    LET m == IF n < 0 THEN n + 2147483647 + 1 ELSE n
        top == (m \div 16777216) + (IF n < 0 THEN 128 ELSE 0)
    IN  << m % 256, (m \div 256) % 256, (m \div 65536) % 256, top >>

PackI64(n) ==
    PackI32(n) \o (IF n < 0 THEN << 255, 255, 255, 255 >> ELSE << 0, 0, 0, 0 >>)

\* ------------------------------------------------------------------------
\* utils.py: read_fstring and aes_decrypt_ecb
\* ------------------------------------------------------------------------

\* str.rstrip('\x00'): every trailing null code point is removed.
RECURSIVE RStripNul(_)
RStripNul(s) ==
    IF Len(s) > 0 /\ s[Len(s)] = 0 THEN RStripNul(SubSeq(s, 1, Len(s) - 1)) ELSE s

\* bytes.decode('utf-8', errors='replace'): never fails; a byte that cannot
\* start a character becomes U+FFFD.  The containers of the model hold no
\* valid multi-byte sequence, so every byte above 127 is such a byte.
Utf8Replace(raw) == [i \in 1..Len(raw) |-> IF raw[i] < 128 THEN raw[i] ELSE 65533]

\* The code units of bytes.decode('utf-16-le'), -1 marking a unit the
\* decoder rejects (an unpaired surrogate).
RECURSIVE Utf16Units(_, _)
Utf16Units(raw, i) ==
    IF 2 * i > Len(raw) THEN << >>
    ELSE LET u == raw[2 * i - 1] + 256 * raw[2 * i]
             hasNext == 2 * (i + 1) <= Len(raw)
             v == IF hasNext THEN raw[2 * i + 1] + 256 * raw[2 * i + 2] ELSE 0
         IN  IF u >= 55296 /\ u <= 56319
             THEN IF hasNext /\ v >= 56320 /\ v <= 57343
                  THEN << 65536 + (u - 55296) * 1024 + (v - 56320) >>
                         \o Utf16Units(raw, i + 2)
                  ELSE << -1 >>
             ELSE IF u >= 56320 /\ u <= 57343 THEN << -1 >>
             ELSE << u >> \o Utf16Units(raw, i + 1)

\* bytes.decode('utf-16-le'): fails (UnicodeDecodeError) on an odd number of
\* bytes and on an unpaired surrogate.
Utf16Decode(raw) ==
    LET units == Utf16Units(raw, 1)
    IN  IF Len(raw) % 2 = 1 \/ (\E k \in 1..Len(units) : units[k] = -1)
        THEN [err |-> "UnicodeDecodeError", val |-> << >>]
        ELSE [err |-> "none", val |-> units]

\* The element of a one-element set.
The(S) == CHOOSE x \in S : TRUE

\* Lines 141-142: the wide text of raw, decoded and stripped.
WideText(pos, raw) ==
    The({[err |-> dec.err, val |-> RStripNul(dec.val), pos |-> pos + 4 + Len(raw)] :
            dec \in {Utf16Decode(raw)}})

\* Lines 144-145: the single-byte text of raw, decoded and stripped.
NarrowText(pos, raw) ==
    The({[err |-> "none", val |-> RStripNul(text), pos |-> pos + 4 + Len(raw)] :
            text \in {Utf8Replace(raw)}})

\* Lines 136-145: the text behind the length prefix.
FStringOfLength(data, pos, length) ==
    IF length = 0
    THEN [err |-> "none", val |-> << >>, pos |-> pos + 4]
    ELSE IF length < 0
    THEN The({WideText(pos, raw) :
                 raw \in {StreamRead(data, pos + 4,
                              2 * Min(IF length = INT_MIN THEN INT_MAX ELSE -length,
                                      Len(data)))}})
    ELSE The({NarrowText(pos, raw) : raw \in {StreamRead(data, pos + 4, length)}})

\* read_fstring(stream) with the stream cursor at pos.  err is the exception
\* raised ("none" when the call returns), val the returned text and pos the
\* cursor the call leaves behind.
read_fstring(data, pos) ==
    The({IF Len(hdr) < 4
         THEN [err |-> "struct.error", val |-> << >>, pos |-> pos + Len(hdr)]
         ELSE The({FStringOfLength(data, pos, length) : length \in {UnpackI32(hdr)}}) :
            hdr \in {StreamRead(data, pos, 4)}})

\* The cipher's block size.
AES_BLOCK == 16

\* cipher.decrypt on one block under the fixed key: a fixed permutation of
\* the 16-byte blocks that is not the identity (the library's AES itself is
\* not modelled).
DecryptBlock(b) == [i \in 1..AES_BLOCK |-> (b[AES_BLOCK + 1 - i] + i) % 256]

\* The inverse permutation, used to lay out encrypted containers.
EncryptBlock(b) ==
    [j \in 1..AES_BLOCK |-> (b[AES_BLOCK + 1 - j] + 256 - (AES_BLOCK + 1 - j)) % 256]

\* cipher.decrypt(padded) in ECB mode: block by block.
EcbDecrypt(padded) ==
    [i \in 1..Len(padded) |->
        LET blk == (i - 1) \div AES_BLOCK
        IN  DecryptBlock(SubSeq(padded, blk * AES_BLOCK + 1,
                                (blk + 1) * AES_BLOCK))[i - blk * AES_BLOCK]]

EcbEncrypt(plain) ==
    [i \in 1..Len(plain) |->
        LET blk == (i - 1) \div AES_BLOCK
        IN  EncryptBlock(SubSeq(plain, blk * AES_BLOCK + 1,
                                (blk + 1) * AES_BLOCK))[i - blk * AES_BLOCK]]

\* A padding that always adds bytes: a whole block to a whole number of blocks.
PaddedAlways(data) ==
    data \o Zeros(((Len(data) \div AES_BLOCK) + 1) * AES_BLOCK - Len(data))

\* padded_size = (len(data) + 15) & ~15 and the buffer handed to the cipher.
PaddedInput(data) ==
    LET padded_size == ((Len(data) + 15) \div AES_BLOCK) * AES_BLOCK
    IN  data \o Zeros(padded_size - Len(data))

\* aes_decrypt_ecb(data, key) once the import check has passed:
\* zero padding, decrypt, truncate.
aes_decrypt_ecb(data) == SubSeq(EcbDecrypt(PaddedInput(data)), 1, Len(data))

\* ------------------------------------------------------------------------
\* pak_reader.py: decode_entry
\* ------------------------------------------------------------------------

\* Bit fields of the little-endian flags word fl (4 bytes).
FlagsMethod(fl) == fl[1] % 64                                 \* flags & 0x3F

FlagsEncrypted(fl) == (fl[1] \div 64) % 2 = 1                 \* bit 6

FlagsBlockCount(fl) ==                                        \* (flags >> 7) & 0x7FF
    (fl[1] \div 128) + 2 * fl[2] + 512 * (fl[3] % 4)

\* A decoder that takes the width of the on-disk size from bit 30.
SizeWidthFromBit30(fl) == (fl[4] \div 64) % 2 = 1

FlagsSize32(fl) == (fl[4] \div 32) % 2 = 1                    \* bit 29

FlagsUncomp32(fl) == (fl[4] \div 64) % 2 = 1                  \* bit 30

FlagsOffset32(fl) == fl[4] \div 128 = 1                       \* bit 31

FULL_FIXED_SIZE == 57     \* 4 + 8 + 8 + 8 + 4 + 20 + 1 + 4

\* The full-form branch: the record starts at position o of data d.
DecodeFull(d, o, fl) ==
    IF Len(d) < o + FULL_FIXED_SIZE THEN [err |-> "struct.error"]
    ELSE
    LET offset == UnpackI64(Slice(d, o + 4, o + 12))
        size == UnpackI64(Slice(d, o + 12, o + 20))
        uncomp_size == UnpackI64(Slice(d, o + 20, o + 28))
        comp_method_real == UnpackU32(Slice(d, o + 28, o + 32))
        enc_flags == d[o + 53]
        block_size == UnpackU32(Slice(d, o + 53, o + 57))
        block_count == FlagsBlockCount(fl)
        hasBlocks == comp_method_real # 0
    IN  IF hasBlocks /\ Len(d) < o + FULL_FIXED_SIZE + block_count * 16
        THEN [err |-> "struct.error"]
        ELSE [err |-> "none",
              entry |-> [full_entry |-> TRUE,
                         offset |-> offset,
                         size |-> size,
                         uncompressed_size |-> uncomp_size,
                         compression |-> comp_method_real,
                         encrypted |-> enc_flags % 2 = 1,
                         block_size |-> block_size,
                         entry_size |-> FULL_FIXED_SIZE
                             + (IF hasBlocks THEN block_count * 16 ELSE 0)]]

\* One flag-selected field of a compact record: 32-bit unsigned when the
\* flag is set, 64-bit signed otherwise.
CompactWidth(is32) == IF is32 THEN 4 ELSE 8

CompactField(d, p, is32) ==
    IF is32 THEN UnpackU32(Slice(d, p, p + 4)) ELSE UnpackI64(Slice(d, p, p + 8))

\* The compact branch.
DecodeCompact(d, o, fl) ==
    LET comp_method == FlagsMethod(fl)
        block_count == FlagsBlockCount(fl)
        pOff == o + 4
        pUnc == pOff + CompactWidth(FlagsOffset32(fl))
        pSize == pUnc + CompactWidth(FlagsUncomp32(fl))
        pBlk == IF comp_method # 0
                THEN pSize + CompactWidth(FlagsSize32(fl)) ELSE pSize
        readsBlocks == comp_method # 0 /\ block_count > 0
        pPairs == IF readsBlocks THEN pBlk + 4 ELSE pBlk
    IN  IF Len(d) < pPairs THEN [err |-> "struct.error"]
        ELSE
        LET uncomp_size == CompactField(d, pUnc, FlagsUncomp32(fl))
            tell == IF readsBlocks
                    THEN Min(pPairs + 8 * block_count, Len(d)) ELSE pPairs
        IN  [err |-> "none",
             entry |-> [full_entry |-> FALSE,
                        offset |-> CompactField(d, pOff, FlagsOffset32(fl)),
                        size |-> IF comp_method # 0
                                 THEN CompactField(d, pSize, FlagsSize32(fl))
                                 ELSE uncomp_size,
                        uncompressed_size |-> uncomp_size,
                        compression |-> comp_method,
                        encrypted |-> FlagsEncrypted(fl),
                        block_count |-> block_count,
                        block_size |-> IF readsBlocks
                                       THEN UnpackU32(Slice(d, pBlk, pBlk + 4))
                                       ELSE 0,
                        entry_size |-> tell - o]]

\* decode_entry(encoded_data, byte_offset): err is the exception raised
\* ("none" when the call returns a dict, which is then entry).
decode_entry(encoded_data, byte_offset) ==
    IF byte_offset < 0 THEN [err |-> "ValueError"]
    ELSE IF Len(encoded_data) - 4 < byte_offset THEN [err |-> "struct.error"]
    ELSE LET fl == Slice(encoded_data, byte_offset, byte_offset + 4)
         IN  IF FlagsMethod(fl) = 63
             THEN DecodeFull(encoded_data, byte_offset, fl)
             ELSE DecodeCompact(encoded_data, byte_offset, fl)

\* ------------------------------------------------------------------------
\* The pak file handle f, and the extraction functions
\* ------------------------------------------------------------------------

\* One call on the handle, as recorded in io_log: f.seek(arg), or f.read(s)
\* with the cursor at position at and arg bytes requested (consecutive
\* fixed-size field reads of one header are recorded as one read).
Seek(target) == [op |-> "seek", at |-> target, arg |-> target]

Read(at, n) == [op |-> "read", at |-> at, arg |-> n]

\* zlib.decompress, reduced to what the extractor relies on: a stream is
\* well formed when it starts with the zlib header byte 0x78, and its content
\* is not its compressed form (here every payload byte stands for two).
Inflate(compressed) ==
    IF Len(compressed) < 1 \/ compressed[1] # 120 THEN [err |-> "zlib.error"]
    ELSE [err |-> "none",
          data |-> [i \in 1..(2 * (Len(compressed) - 1)) |->
                       compressed[1 + ((i + 1) \div 2)]]]

\* extract_file(pak_handle, entry_info, aes_key) on the file bytes f, with
\* has_crypto the module flag HAS_PYCRYPTODOME.  err is the exception raised
\* ("none" on return), data the returned bytes, io the calls made on the
\* handle and pos the cursor they leave behind (cur when none was made).
extract_file(f, cur, entry_info, has_crypto) ==
    IF entry_info.compression \notin {0, 63}
    THEN [err |-> "ValueError", data |-> << >>, io |-> << >>, pos |-> cur]
    ELSE IF entry_info.offset < 0
    THEN [err |-> "OSError", data |-> << >>,
          io |-> << Seek(entry_info.offset) >>, pos |-> cur]
    ELSE LET raw == StreamRead(f, entry_info.offset, entry_info.size)
             io == << Seek(entry_info.offset),
                      Read(entry_info.offset, entry_info.size) >>
             pos == entry_info.offset + Len(raw)
         IN  IF entry_info.encrypted
             THEN IF has_crypto
                  THEN [err |-> "none", data |-> aes_decrypt_ecb(raw),
                        io |-> io, pos |-> pos]
                  ELSE [err |-> "ImportError", data |-> << >>,
                        io |-> io, pos |-> pos]
             ELSE [err |-> "none", data |-> raw, io |-> io, pos |-> pos]

INLINE_FIXED_SIZE == 52     \* 8 + 8 + 8 + 4 + 20 + 4, up to the block count

\* extract_compressed_file(pak_handle, entry_info) on the file bytes f.
extract_compressed_file(f, cur, entry_info) ==
    LET o == entry_info.offset
    IN  IF o < 0
        THEN [err |-> "OSError", data |-> << >>, io |-> << Seek(o) >>, pos |-> cur]
        ELSE IF Len(f) - INLINE_FIXED_SIZE < o
        THEN [err |-> "struct.error", data |-> << >>,
              io |-> << Seek(o), Read(o, INLINE_FIXED_SIZE) >>,
              pos |-> Max(o, Len(f))]
        ELSE
        LET comp_size == UnpackI64(Slice(f, o + 8, o + 16))
            comp_method == UnpackU32(Slice(f, o + 24, o + 28))
            block_count == UnpackI32(Slice(f, o + 48, o + 52))
            nblocks == Max(block_count, 0)
            tailLen == IF nblocks > Len(f) THEN Len(f) + 5 ELSE 16 * nblocks + 5
            data_offset == o + INLINE_FIXED_SIZE + tailLen
            hdrIo == << Seek(o), Read(o, INLINE_FIXED_SIZE + tailLen) >>
        IN  IF Len(f) < data_offset
            THEN [err |-> "struct.error", data |-> << >>, io |-> hdrIo,
                  pos |-> Len(f)]
            ELSE IF comp_method = 1
            THEN LET compressed == StreamRead(f, data_offset, comp_size)
                     z == Inflate(compressed)
                     io == hdrIo \o << Read(data_offset, comp_size) >>
                     pos == data_offset + Len(compressed)
                 IN  IF z.err = "none"
                     THEN [err |-> "none", data |-> z.data, io |-> io, pos |-> pos]
                     ELSE [err |-> z.err, data |-> << >>, io |-> io, pos |-> pos]
            ELSE [err |-> "ValueError", data |-> << >>, io |-> hdrIo,
                  pos |-> data_offset]

\* Lines 98-114 of extract_compressed_file: the fields of the inline header
\* at position o of f in the order they are read (the block count and the
\* block pairs before the encrypted flag and the chunk size), and the
\* position data_offset the reads end at.  The header lies within f.
InlineHeader(f, o) ==
    LET block_count == UnpackI32(Slice(f, o + 48, o + 52))
        nblocks == Max(block_count, 0)
        pairs == o + INLINE_FIXED_SIZE
        tail == pairs + 16 * nblocks
    IN  [offset |-> UnpackI64(Slice(f, o, o + 8)),
         comp_size |-> UnpackI64(Slice(f, o + 8, o + 16)),
         uncomp_size |-> UnpackI64(Slice(f, o + 16, o + 24)),
         comp_method |-> UnpackU32(Slice(f, o + 24, o + 28)),
         block_count |-> block_count,
         blocks |-> [k \in 1..nblocks |->
                        << UnpackI64(Slice(f, pairs + 16 * (k - 1),
                                           pairs + 16 * (k - 1) + 8)),
                           UnpackI64(Slice(f, pairs + 16 * (k - 1) + 8,
                                           pairs + 16 * k)) >>],
         b_encrypted |-> f[tail + 1],
         b_block_size |-> UnpackU32(Slice(f, tail + 1, tail + 5)),
         data_offset |-> tail + 5]

\* ------------------------------------------------------------------------
\* pak_reader.py: read_pak_info and the primary index of read_pak_index
\* ------------------------------------------------------------------------

PAK_INFO_OFFSET == 204

FOOTER_FIXED_SIZE == 65     \* 4 + 4 + 8 + 8 + 20 + 1 + 16 + 4

\* method_bytes.split(b'\x00')[0].decode('ascii', errors='replace')
RECURSIVE UpToNul(_)
UpToNul(b) ==
    IF Len(b) = 0 \/ b[1] = 0 THEN << >> ELSE << b[1] >> \o UpToNul(Tail(b))

MethodName(method_bytes) == Utf8Replace(UpToNul(method_bytes))

\* read_pak_info(f, file_size): err is the exception raised ("none" on
\* return), info the PakInfo returned, io the calls made on the handle.
read_pak_info(f, file_size) ==
    LET base == file_size - PAK_INFO_OFFSET
    IN  IF base < 0
        THEN [err |-> "OSError", io |-> << Seek(base) >>, pos |-> file_size]
        ELSE
        LET comp_count == UnpackU32(Slice(f, base + 61, base + 65))
            namesAt == base + FOOTER_FIXED_SIZE
        IN  [err |-> "none",
             info |-> [magic |-> UnpackU32(Slice(f, base, base + 4)),
                       version |-> UnpackU32(Slice(f, base + 4, base + 8)),
                       index_offset |-> UnpackU64(Slice(f, base + 8, base + 16)),
                       index_size |-> UnpackU64(Slice(f, base + 16, base + 24)),
                       index_hash |-> Slice(f, base + 24, base + 44),
                       encrypted |-> f[base + 45] # 0,
                       enc_key_guid |-> Slice(f, base + 45, base + 61),
                       compression_methods |->
                           [k \in 1..comp_count |->
                               MethodName(Slice(f, namesAt + 32 * (k - 1),
                                                namesAt + 32 * k))]],
             io |-> << Seek(base), Read(base, FOOTER_FIXED_SIZE + 32 * comp_count) >>,
             pos |-> Min(namesAt + 32 * comp_count, file_size)]

DESCRIPTOR_SIZE == 36     \* offset (8) + size (8) + hash (20)

\* Lines 127-151 of read_pak_index: the sequential parse of the decrypted
\* index.  err is the exception raised ("none" when the parse completes).
\* Lines 149-151: the encoded entries, after the directory descriptor that
\* starts at p2 + 4 and the size field at p3.
ParseEncodedEntries(decrypted, mount, p1, p2, has_full_dir, p3) ==
    IF Len(decrypted) < p3 + 4 THEN [err |-> "struct.error"]
    ELSE [err |-> "none",
          mount_point |-> mount,
          num_entries |-> UnpackI32(Slice(decrypted, p1, p1 + 4)),
          has_full_dir |-> has_full_dir,
          full_dir_offset |->
              IF has_full_dir # 0
              THEN UnpackI64(Slice(decrypted, p2 + 4, p2 + 12)) ELSE 0,
          full_dir_size |->
              IF has_full_dir # 0
              THEN UnpackI64(Slice(decrypted, p2 + 12, p2 + 20)) ELSE 0,
          encoded_data |->
              StreamRead(decrypted, p3 + 4, UnpackI32(Slice(decrypted, p3, p3 + 4)))]

\* Lines 141-147: has_full_dir at p2 and, when set, its descriptor.
ParseFullDirMeta(decrypted, mount, p1, p2, has_full_dir) ==
    ParseEncodedEntries(decrypted, mount, p1, p2, has_full_dir,
                        p2 + 4 + (IF has_full_dir # 0 THEN DESCRIPTOR_SIZE ELSE 0))

\* Lines 134-138: has_path_hash at p1 + 12 and, when set, its descriptor.
ParsePathHash(decrypted, mount, p1, has_path_hash) ==
    IF Len(decrypted) < p1 + 20 + (IF has_path_hash # 0 THEN DESCRIPTOR_SIZE ELSE 0)
    THEN [err |-> "struct.error"]
    ELSE ParseFullDirMeta(
             decrypted, mount, p1,
             p1 + 16 + (IF has_path_hash # 0 THEN DESCRIPTOR_SIZE ELSE 0),
             UnpackI32(Slice(decrypted,
                 p1 + 16 + (IF has_path_hash # 0 THEN DESCRIPTOR_SIZE ELSE 0),
                 p1 + 20 + (IF has_path_hash # 0 THEN DESCRIPTOR_SIZE ELSE 0))))

\* A tolerant parse: an index that ends within or right after the mount
\* point is taken as an index without entries.
ParseShortAsEmpty(decrypted, mp) ==
    IF mp.err # "none" \/ Len(decrypted) < mp.pos + 16
    THEN [err |-> "none", mount_point |-> mp.val, num_entries |-> 0,
          has_full_dir |-> 0, full_dir_offset |-> 0, full_dir_size |-> 0,
          encoded_data |-> << >>]
    ELSE ParsePathHash(decrypted, mp.val, mp.pos,
                       UnpackI32(Slice(decrypted, mp.pos + 12, mp.pos + 16)))

\* Lines 129-131: the mount point mp, then num_entries and path_hash_seed.
ParseAfterMount(decrypted, mp) ==
    IF mp.err # "none" THEN [err |-> mp.err]
    ELSE IF Len(decrypted) < mp.pos + 16 THEN [err |-> "struct.error"]
    ELSE ParsePathHash(decrypted, mp.val, mp.pos,
                       UnpackI32(Slice(decrypted, mp.pos + 12, mp.pos + 16)))

ParsePrimaryIndex(decrypted) == ParseAfterMount(decrypted, read_fstring(decrypted, 0))

\* ------------------------------------------------------------------------
\* Container layout: the bytes of the files the programs are run on, laid
\* out as the docstrings of pak_reader.py describe the format
\* ------------------------------------------------------------------------

RECURSIVE Concat(_)
Concat(seqs) == IF Len(seqs) = 0 THEN << >> ELSE Head(seqs) \o Concat(Tail(seqs))

\* An FString holding text s: style "a" is the single-byte form with its
\* terminator, "w" the wide form with its null code unit, "e" the empty
\* form of length 0 (for s = << >>).
FStringBytes(s, style) ==
    IF style = "e" THEN PackI32(0)
    ELSE IF style = "w"
    THEN PackI32(-(Len(s) + 1))
           \o [i \in 1..(2 * Len(s)) |-> IF i % 2 = 1 THEN s[(i + 1) \div 2] ELSE 0]
           \o << 0, 0 >>
    ELSE PackI32(Len(s) + 1) \o s \o << 0 >>

\* The FullDirectoryIndex block of a directory tree: a sequence of
\* directories [name, style, files], files a sequence of
\* [name, style, encoded_offset].
FileRecordBytes(fr) == FStringBytes(fr.name, fr.style) \o PackI32(fr.encoded_offset)

DirRecordBytes(dr) ==
    FStringBytes(dr.name, dr.style) \o PackI32(Len(dr.files))
      \o Concat([j \in 1..Len(dr.files) |-> FileRecordBytes(dr.files[j])])

DirBlockBytes(tree) ==
    PackI32(Len(tree)) \o Concat([i \in 1..Len(tree) |-> DirRecordBytes(tree[i])])

\* The flags word of a record: method index, encrypted bit, block count and
\* the three width bits.
FlagsBytes(method, enc, count, size32, uncomp32, offset32) ==
    << method + (IF enc THEN 64 ELSE 0) + 128 * (count % 2),
       (count \div 2) % 256,
       (count \div 512) % 4,
       (IF size32 THEN 32 ELSE 0) + (IF uncomp32 THEN 64 ELSE 0)
         + (IF offset32 THEN 128 ELSE 0) >>

BlockPairsBytes(blocks) ==
    Concat([k \in 1..Len(blocks) |-> PackI64(blocks[k][1]) \o PackI64(blocks[k][2])])

\* A full-form record of the logical file e = [offset, size, uncomp, method,
\* enc, chunk, blocks].
FullRecordBytes(e) ==
    FlagsBytes(63, FALSE, Len(e.blocks), FALSE, FALSE, FALSE)
      \o PackI64(e.offset) \o PackI64(e.size) \o PackI64(e.uncomp)
      \o PackI32(e.method) \o Zeros(20) \o << IF e.enc THEN 1 ELSE 0 >>
      \o PackI32(e.chunk)
      \o (IF e.method # 0 THEN BlockPairsBytes(e.blocks) ELSE << >>)

\* A compact record of e, every flag-selected field w32 wide (TRUE: 32 bits).
\* The on-disk size follows only for a compressed file, the chunk size and
\* one 8-byte item per block only for a compressed file with blocks.
CompactRecordBytes(e, w32) ==
    LET pk(v) == IF w32 THEN PackI32(v) ELSE PackI64(v)
    IN  FlagsBytes(e.method, e.enc, Len(e.blocks), w32, w32, w32)
          \o pk(e.offset) \o pk(e.uncomp)
          \o (IF e.method # 0 THEN pk(e.size) ELSE << >>)
          \o (IF e.method # 0 /\ Len(e.blocks) > 0
              THEN PackI32(e.chunk) \o Zeros(8 * Len(e.blocks)) ELSE << >>)

\* The mount point of the primary index: a single-byte FString; in the
\* containers of kind "index" the length field holds mount_declared, whatever
\* the text is (negative: the text is in the wide form).
MountBytes(c) ==
    IF c.kind = "index"
    THEN PackI32(c.mount_declared)
           \o SubSeq(FStringBytes(c.mount, IF c.mount_declared < 0 THEN "w" ELSE "a"),
                     5, Len(FStringBytes(c.mount,
                                         IF c.mount_declared < 0 THEN "w" ELSE "a")))
    ELSE FStringBytes(c.mount, "a")

\* The length the index declares for its table: in the containers of kind
\* "table" the true length or another value, otherwise the true length.
TableDeclared(c, table) ==
    IF c.kind # "table" \/ c.table_declared = "true" THEN Len(table)
    ELSE IF c.table_declared = "zero" THEN 0
    ELSE IF c.table_declared = "negative" THEN -1
    ELSE IF c.table_declared = "short" THEN Len(table) - 2
    ELSE Len(table) + 1000

\* The primary index, before encryption.
IndexBytes(c, dirOffset, dirSize, table) ==
    MountBytes(c) \o PackI32(c.num_entries) \o PackI64(0)
      \o PackI32(c.has_path_hash)
      \o (IF c.has_path_hash # 0 THEN Zeros(DESCRIPTOR_SIZE) ELSE << >>)
      \o PackI32(c.has_full_dir)
      \o (IF c.has_full_dir # 0
          THEN PackI64(dirOffset) \o PackI64(dirSize) \o Zeros(20) ELSE << >>)
      \o PackI32(TableDeclared(c, table)) \o table

\* An encrypted region: the plain bytes padded to whole blocks, encrypted.
Sealed(plain, encrypted) ==
    IF encrypted
    THEN EcbEncrypt(plain \o Zeros((AES_BLOCK - (Len(plain) % AES_BLOCK)) % AES_BLOCK))
    ELSE plain

FooterBytes(c, indexOffset, indexSize) ==
    LET fixed == PackI32(c.magic) \o PackI32(11) \o PackI64(indexOffset)
                   \o PackI64(indexSize) \o Zeros(20)
                   \o << IF c.encrypted THEN 1 ELSE 0 >> \o Zeros(16)
                   \o PackI32(c.comp_count)
                   \o Concat([k \in 1..c.comp_count |->
                                 << 90, 108, 105, 98 >> \o Zeros(28)])
    IN  fixed \o Zeros(PAK_INFO_OFFSET - Len(fixed))

\* A record r = [e, form, w32] of a container description, e giving the body
\* offset either absolutely or relative to the end of the file (fs).
ResolveEntry(e, fs) ==
    [offset |-> IF e.off_base = "eof" THEN fs + e.off_delta ELSE e.off_delta,
     size |-> e.size, uncomp |-> e.uncomp, method |-> e.method, enc |-> e.enc,
     chunk |-> e.chunk, blocks |-> e.blocks]

RecordBytes(r, fs) ==
    IF r.form = "full" THEN FullRecordBytes(ResolveEntry(r.e, fs))
    ELSE CompactRecordBytes(ResolveEntry(r.e, fs), r.w32)

TableBytes(records, fs) ==
    Concat([k \in 1..Len(records) |-> RecordBytes(records[k], fs)])

\* Position of record k in the encoded-entries table.
RecordOffset(records, k) == Len(TableBytes(SubSeq(records, 1, k - 1), 0))

\* Damage done to a directory block: "cut" keeps its first keep bytes, "len"
\* overwrites the 32-bit length at position at with value, "count" does so
\* with the directory count or a file count.
Damaged(plain, damage) ==
    IF damage.kind = "cut" THEN SubSeq(plain, 1, damage.keep)
    ELSE IF damage.kind \in {"len", "count"}
    THEN [i \in 1..Len(plain) |->
             IF i > damage.at /\ i <= damage.at + 4
             THEN PackI32(damage.value)[i - damage.at] ELSE plain[i]]
    ELSE plain

DirPlainBytes(c) == Damaged(DirBlockBytes(c.tree), c.damage)

\* The file of container description c when its size is fs: body, directory
\* block, primary index, footer.
Layout(c, fs) ==
    LET dirSealed == Sealed(DirPlainBytes(c), c.encrypted)
        dirOffset == Len(c.body)
        indexSealed == Sealed(IndexBytes(c, dirOffset, Len(dirSealed),
                                         TableBytes(c.records, fs)), c.encrypted)
    IN  c.body \o dirSealed \o indexSealed
          \o FooterBytes(c, dirOffset + Len(dirSealed), Len(indexSealed))

BuildPak(c) == IF c.tiny THEN c.body ELSE Layout(c, Len(Layout(c, 0)))

\* ------------------------------------------------------------------------
\* State
\* ------------------------------------------------------------------------

VARIABLES
    prog,               \* which main() runs: "pak_reader" or "extract_enums"
    args,               \* pak_reader's parsed command line
    HAS_PYCRYPTODOME,   \* utils.HAS_PYCRYPTODOME: the cipher library imported
    cfg,                \* description of the container the file was laid out from
    pak,                \* the bytes of the pak file
    pc,                 \* position of the running program
    status,             \* "running", "returned", "exit" (sys.exit(1)), "crashed"
    exc,                \* the exception that ended main ("none" otherwise)
    fpos,               \* cursor of the file handle f
    io_log,             \* the calls made on f so far
    pak_info,           \* PakInfo returned by read_pak_info
    mount_point, num_entries, encoded_data, dir_entries,
    dir_stream,         \* read_pak_index: the decrypted directory block
    dpos,               \* dir_stream.tell()
    dirs_left,          \* iterations left in range(dir_count)
    files_left,         \* iterations left in range(file_count)
    dir_name,
    warned,             \* the "parsing stopped" warning was printed
    matches,            \* main: indices in dir_entries of the matched entries
    mi,                 \* main: index in matches of the entry processed next
    extracted,          \* main: the extracted counter
    outcomes,           \* one record per entry an extraction path has handled
    out_files,          \* the files written to the output directory
    uexp_entry, uasset_entry,   \* extract_enums.main: indices in dir_entries, 0 for None
    byte_offsets,       \* decode_entry alone: the offsets it is still to be called with
    decode_results,     \* decode_entry alone: the results of the calls made so far
    cursors,            \* extract_file alone: the cursor of each handle on the file
    callers,            \* extract_file alone: the callers and the call each is in
    lock,               \* extract_file alone: the caller inside a seek+read pair, 0 for none
    returns,            \* extract_file alone: the calls that have ended
    save_file,          \* the editors: the bytes of the save file on disk
    save_data,          \* the editors: main's data
    backup_files,       \* the editors: the backup files, by the second in their name
    backup_created,     \* edit_stats.main: backup_created[0]
    now,                \* the editors: the second of the last reading of the clock
    edits,              \* the editors: the edits confirmed so far
    last_edit,          \* the editors: the last edit confirmed and how it ended
    util_calls,         \* utils.py alone: the calls still to be made
    util_results        \* utils.py alone: the calls made, each with how it ended

inputVars == << prog, args, HAS_PYCRYPTODOME, cfg, pak >>

fileVars == << fpos, io_log >>

indexVars == << mount_point, num_entries, encoded_data >>

dirVars == << dir_stream, dpos, dirs_left, files_left, dir_name, warned >>

mainVars == << matches, mi, extracted, outcomes, out_files, uexp_entry, uasset_entry >>

codecVars == << byte_offsets, decode_results >>

callVars == << cursors, callers, lock, returns >>

editVars == << save_file, save_data, backup_files, backup_created, now, edits,
               last_edit >>

utilVars == << util_calls, util_results >>

vars == << inputVars, pc, status, exc, fileVars, pak_info, indexVars, dir_entries,
           dirVars, mainVars, codecVars, callVars, editVars, utilVars >>

\* Python's None, and the PakInfo() a fresh object holds.
None == [none |-> TRUE]

NoInfo == [magic |-> 0, version |-> 0, index_offset |-> 0, index_size |-> 0,
           index_hash |-> << >>, encrypted |-> FALSE, enc_key_guid |-> << >>,
           compression_methods |-> << >>]

\* No call of extract_file outside main is under way.
NoCalls == cursors = << >> /\ callers = << >> /\ lock = 0 /\ returns = << >>

\* No edit has been confirmed.
NoEdit == [op |-> "none", offset |-> 0, err |-> "none"]

\* No function of utils.py is called on its own.
NoUtils == util_calls = << >> /\ util_results = << >>

\* No editor runs.
NoEdits ==
    /\ save_file = << >>
    /\ save_data = << >>
    /\ backup_files = << >>
    /\ backup_created = FALSE
    /\ now = 0
    /\ edits = 0
    /\ last_edit = NoEdit

\* PakDirectoryEntry(path, encoded_offset)
PakDirectoryEntry(path, encoded_offset) ==
    [path |-> path, encoded_offset |-> encoded_offset, decoded |-> None]

\* An uncaught exception ends main.
Crash(e) == /\ status' = "crashed"
            /\ exc' = e
            /\ pc' = "done"

\* main returns, or leaves through sys.exit(1).
Finish(how) == /\ status' = how
               /\ exc' = "none"
               /\ pc' = "done"

Continue(next) == /\ pc' = next
                  /\ UNCHANGED << status, exc >>

\* No --list, --search or --extract on the command line.
NoOperation == ~args.list /\ args.search = << >> /\ args.extract = << >>

\* Both mains, from open() to the return of read_pak_info; pak_reader's main
\* returns here when no operation was asked for.
MainOpen ==
    /\ pc = "start"
    /\ LET file_size == Len(pak)
           r == read_pak_info(pak, file_size)
       IN  /\ io_log' = io_log \o << Seek(file_size) >> \o r.io
           /\ fpos' = r.pos
           /\ IF r.err # "none"
              THEN Crash(r.err) /\ UNCHANGED pak_info
              ELSE /\ pak_info' = r.info
                   /\ IF prog = "pak_reader" /\ NoOperation
                      THEN Finish("returned")
                      ELSE Continue("read_index")
    /\ UNCHANGED << inputVars, codecVars, callVars, editVars, utilVars, indexVars, dir_entries, dirVars, mainVars >>

\* read_pak_index, lines 119-160: the primary index, and the read of the
\* directory block when the descriptor asks for it.
ReadIndexHead ==
    /\ pc = "read_index"
    /\ \E raw_index \in {StreamRead(pak, pak_info.index_offset, pak_info.index_size)} :
       LET io1 == << Seek(pak_info.index_offset),
                     Read(pak_info.index_offset, pak_info.index_size) >>
           pos1 == pak_info.index_offset + Len(raw_index)
       IN  IF pak_info.encrypted /\ ~HAS_PYCRYPTODOME
           THEN /\ Crash("ImportError")
                /\ io_log' = io_log \o io1
                /\ fpos' = pos1
                /\ UNCHANGED << indexVars, dir_stream, dpos >>
           ELSE
           \E ix \in {ParsePrimaryIndex(IF pak_info.encrypted
                                        THEN aes_decrypt_ecb(raw_index)
                                        ELSE raw_index)} :
               IF ix.err # "none"
               THEN /\ Crash(ix.err)
                    /\ io_log' = io_log \o io1
                    /\ fpos' = pos1
                    /\ UNCHANGED << indexVars, dir_stream, dpos >>
               ELSE
               /\ mount_point' = ix.mount_point
               /\ num_entries' = ix.num_entries
               /\ encoded_data' = ix.encoded_data
               /\ dpos' = 0
               /\ IF ix.has_full_dir # 0 /\ ix.full_dir_offset > 0
                     /\ ix.full_dir_size > 0
                  THEN \E raw_dir \in {StreamRead(pak, ix.full_dir_offset,
                                                  ix.full_dir_size)} :
                           /\ io_log' = io_log \o io1
                                \o << Seek(ix.full_dir_offset),
                                      Read(ix.full_dir_offset, ix.full_dir_size) >>
                           /\ fpos' = ix.full_dir_offset + Len(raw_dir)
                           /\ dir_stream' = IF pak_info.encrypted
                                            THEN aes_decrypt_ecb(raw_dir)
                                            ELSE raw_dir
                           /\ Continue("dir_count")
                  ELSE /\ io_log' = io_log \o io1
                       /\ fpos' = pos1
                       /\ dir_stream' = << >>
                       /\ Continue("index_return")
    /\ UNCHANGED << inputVars, codecVars, callVars, editVars, utilVars, pak_info, dir_entries, dirs_left, files_left,
                    dir_name, warned, mainVars >>

\* A narrower clause, "except struct.error": a decoding error of a name
\* would leave the loop uncaught.
CatchesStructErrorOnly(err) == err = "struct.error"

\* Line 171, "except Exception": the exceptions the directory loop catches.
DirParseCatches(err) == TRUE

\* A decoder that prints the warning and goes on with the next iteration.
GoOnAfterError(err) == warned' = TRUE /\ UNCHANGED << pc, status, exc >>

\* An exception in the directory loop: when caught, the warning is printed
\* and control falls through to the return statement.
StopDirParse(err) ==
    IF DirParseCatches(err)
    THEN /\ warned' = TRUE
         /\ Continue("index_return")
    ELSE /\ Crash(err)
         /\ UNCHANGED warned

\* The concatenation the other way round: file_name + dir_name.
FileNameFirst(dir, file_name) == file_name \o dir

\* Line 169: full_path = dir_name + file_name
FullPath(dir, file_name) == dir \o file_name

\* Line 162: the directory count.
DirCount ==
    /\ pc = "dir_count"
    /\ \E b \in {StreamRead(dir_stream, dpos, 4)} :
           /\ dpos' = dpos + Len(b)
           /\ IF Len(b) < 4
              THEN StopDirParse("struct.error") /\ UNCHANGED dirs_left
              ELSE /\ dirs_left' = UnpackI32(b)
                   /\ Continue("dir_next")
                   /\ UNCHANGED warned
    /\ UNCHANGED << inputVars, codecVars, callVars, editVars, utilVars, fileVars, pak_info, indexVars, dir_entries,
                    dir_stream, files_left, dir_name, mainVars >>

\* Lines 163-165: one iteration of the outer loop up to the file count.
DirHeader ==
    /\ pc = "dir_next"
    /\ dirs_left > 0
    /\ \E nm \in {read_fstring(dir_stream, dpos)} :
       \E b \in {StreamRead(dir_stream, nm.pos, 4)} :
           IF nm.err # "none"
           THEN /\ StopDirParse(nm.err)
                /\ dpos' = nm.pos
                /\ UNCHANGED << dirs_left, files_left, dir_name >>
           ELSE IF Len(b) < 4
           THEN /\ StopDirParse("struct.error")
                /\ dpos' = nm.pos + Len(b)
                /\ dir_name' = nm.val
                /\ UNCHANGED << dirs_left, files_left >>
           ELSE /\ dir_name' = nm.val
                /\ files_left' = UnpackI32(b)
                /\ dirs_left' = dirs_left - 1
                /\ dpos' = nm.pos + 4
                /\ Continue("file_next")
                /\ UNCHANGED warned
    /\ UNCHANGED << inputVars, codecVars, callVars, editVars, utilVars, fileVars, pak_info, indexVars, dir_entries,
                    dir_stream, mainVars >>

\* range(dir_count) is exhausted: the try block ends normally.
DirLoopEnd ==
    /\ pc = "dir_next"
    /\ dirs_left <= 0
    /\ Continue("index_return")
    /\ UNCHANGED << inputVars, codecVars, callVars, editVars, utilVars, fileVars, pak_info, indexVars, dir_entries,
                    dirVars, mainVars >>

\* Lines 166-170: one iteration of the inner loop.
DirFile ==
    /\ pc = "file_next"
    /\ files_left > 0
    /\ \E nm \in {read_fstring(dir_stream, dpos)} :
       \E b \in {StreamRead(dir_stream, nm.pos, 4)} :
           IF nm.err # "none"
           THEN /\ StopDirParse(nm.err)
                /\ dpos' = nm.pos
                /\ UNCHANGED << files_left, dir_entries >>
           ELSE IF Len(b) < 4
           THEN /\ StopDirParse("struct.error")
                /\ dpos' = nm.pos + Len(b)
                /\ UNCHANGED << files_left, dir_entries >>
           ELSE /\ dir_entries' = Append(dir_entries,
                                         PakDirectoryEntry(FullPath(dir_name, nm.val),
                                                           UnpackI32(b)))
                /\ files_left' = files_left - 1
                /\ dpos' = nm.pos + 4
                /\ Continue("file_next")
                /\ UNCHANGED warned
    /\ UNCHANGED << inputVars, codecVars, callVars, editVars, utilVars, fileVars, pak_info, indexVars, dir_stream,
                    dirs_left, dir_name, mainVars >>

\* range(file_count) is exhausted: back to the outer loop.
FileLoopEnd ==
    /\ pc = "file_next"
    /\ files_left <= 0
    /\ Continue("dir_next")
    /\ UNCHANGED << inputVars, codecVars, callVars, editVars, utilVars, fileVars, pak_info, indexVars, dir_entries,
                    dirVars, mainVars >>

\* The value read_pak_index returns.
Returned == << mount_point, num_entries, encoded_data, dir_entries >>

\* Line 174: read_pak_index returns to main, which prints the summary.
IndexReturn ==
    /\ pc = "index_return"
    /\ Continue(IF prog = "pak_reader" THEN "main_ops" ELSE "enum_select")
    /\ UNCHANGED << inputVars, codecVars, callVars, editVars, utilVars, fileVars, pak_info, indexVars, dir_entries,
                    dirVars, mainVars >>

\* ------------------------------------------------------------------------
\* pak_reader.main: --list, --search, --extract
\* ------------------------------------------------------------------------

\* Text is a sequence of code points.
Lower(c) == IF c >= 65 /\ c <= 90 THEN c + 32 ELSE c

LowerText(t) == [i \in 1..Len(t) |-> Lower(t[i])]

\* needle in hay
Contains(hay, needle) ==
    \E i \in 1..(Len(hay) - Len(needle) + 1) :
        \A k \in 1..Len(needle) : hay[i + k - 1] = needle[k]

\* hay.endswith(suffix)
EndsWith(hay, suffix) ==
    /\ Len(hay) >= Len(suffix)
    /\ \A k \in 1..Len(suffix) : hay[Len(hay) - Len(suffix) + k] = suffix[k]

\* re.compile(pattern, re.IGNORECASE).search(path) for a pattern without
\* regular-expression operators: a case-insensitive substring test.
PatternSearch(pattern, path) == Contains(LowerText(path), LowerText(pattern))

\* os.path.basename(path): what follows the last '/'.
RECURSIVE Basename(_)
Basename(path) ==
    IF \E i \in 1..Len(path) : path[i] = 47 THEN Basename(Tail(path)) ELSE path

\* [e for e in dir_entries if pattern.search(e.path)], as indices.
RECURSIVE MatchesFrom(_, _, _)
MatchesFrom(entries, pattern, i) ==
    IF i > Len(entries) THEN << >>
    ELSE (IF PatternSearch(pattern, entries[i].path) THEN << i >> ELSE << >>)
           \o MatchesFrom(entries, pattern, i + 1)

PAK_READER_MAX_SIZE == 104857600    \* 100 * 1024 * 1024

ENUM_MAX_SIZE == 10485760           \* 10 * 1024 * 1024

\* The offset/size validation of the extraction paths.
Sane(decoded, file_size, max_size) ==
    /\ 0 < decoded.offset /\ decoded.offset < file_size
    /\ 0 < decoded.size /\ decoded.size < max_size

\* What an extraction path did with one entry: who handled it ("extract",
\* "uexp", "uasset"), the entry's index, how it ended (kind), the result of
\* decode_entry (dec), the exception (err), the function that returned the
\* content (via), the content (data) and the calls made on f for it (io).
Outcome(who, entry, kind, dec, err, via, data, io) ==
    [who |-> who, entry |-> entry, kind |-> kind, dec |-> dec, err |-> err,
     via |-> via, data |-> data, io |-> io]

\* Lines 339-356: --list and --search print; --extract selects its matches.
MainOps ==
    /\ pc = "main_ops"
    /\ IF args.extract # << >>
       THEN /\ matches' = MatchesFrom(dir_entries, args.extract, 1)
            /\ mi' = 1
            /\ extracted' = 0
            /\ Continue("extract_loop")
       ELSE /\ Finish("returned")
            /\ UNCHANGED << matches, mi, extracted >>
    /\ UNCHANGED << inputVars, codecVars, callVars, editVars, utilVars, fileVars, pak_info, indexVars, dir_entries,
                    dirVars, outcomes, out_files, uexp_entry, uasset_entry >>

\* A loop without the try statement: the exception of an entry ends main.
EntryFatal(o) ==
    IF o.kind = "ERROR" THEN Crash(o.err) ELSE Continue("extract_loop")

\* Lines 359, 366 and 381-382: whatever the handling of an entry ended in,
\* written (o.kind = "OK"), skipped by continue or an exception caught by
\* "except Exception", the loop goes on with the next match.
EntryHandled(o) == Continue("extract_loop")

\* Lines 358-382: one iteration of the extraction loop.
ExtractStep ==
    /\ pc = "extract_loop"
    /\ mi <= Len(matches)
    /\ LET i == matches[mi]
           d == decode_entry(encoded_data, dir_entries[i].encoded_offset)
       IN  IF d.err # "none"
           THEN /\ outcomes' = Append(outcomes,
                    Outcome("extract", i, "ERROR", d, d.err, "none", << >>, << >>))
                /\ UNCHANGED << dir_entries, fileVars, extracted, out_files >>
           ELSE
           /\ dir_entries' = [dir_entries EXCEPT ![i].decoded = d.entry]
           /\ IF ~Sane(d.entry, Len(pak), PAK_READER_MAX_SIZE)
              THEN /\ outcomes' = Append(outcomes,
                       Outcome("extract", i, "SKIP", d, "none", "none", << >>, << >>))
                   /\ UNCHANGED << fileVars, extracted, out_files >>
              ELSE
              LET x == extract_file(pak, fpos, d.entry, HAS_PYCRYPTODOME)
                  filename == Basename(dir_entries[i].path)
                  err == IF x.err # "none" THEN x.err
                         ELSE IF filename = << >> THEN "OSError" ELSE "none"
              IN  /\ io_log' = io_log \o x.io
                  /\ fpos' = x.pos
                  /\ IF err # "none"
                     THEN /\ outcomes' = Append(outcomes,
                              Outcome("extract", i, "ERROR", d, err,
                                      IF x.err = "none" THEN "extract_file" ELSE "none",
                                      x.data, x.io))
                          /\ UNCHANGED << extracted, out_files >>
                     ELSE /\ outcomes' = Append(outcomes,
                              Outcome("extract", i, "OK", d, "none",
                                      "extract_file", x.data, x.io))
                          /\ out_files' = Append(out_files,
                                                 [name |-> filename, data |-> x.data])
                          /\ extracted' = extracted + 1
    /\ mi' = mi + 1
    /\ EntryHandled(outcomes'[Len(outcomes')])
    /\ UNCHANGED << inputVars, codecVars, callVars, editVars, utilVars, pak_info, indexVars, dirVars, matches,
                    uexp_entry, uasset_entry >>

\* Line 384: the loop is over, main prints the count and returns.
ExtractEnd ==
    /\ pc = "extract_loop"
    /\ mi > Len(matches)
    /\ Finish("returned")
    /\ UNCHANGED << inputVars, codecVars, callVars, editVars, utilVars, fileVars, pak_info, indexVars, dir_entries,
                    dirVars, mainVars >>

\* ------------------------------------------------------------------------
\* extract_enums.main
\* ------------------------------------------------------------------------

ENUM_PROFESSIONS ==    \* 'Enum_Professions'
    << 69, 110, 117, 109, 95, 80, 114, 111, 102, 101, 115, 115, 105, 111, 110, 115 >>

DOT_UEXP == << 46, 117, 101, 120, 112 >>               \* '.uexp'

DOT_UASSET == << 46, 117, 97, 115, 115, 101, 116 >>     \* '.uasset'

\* Lines 228-249.  target_files is a dict keyed by path: its keys keep the
\* order of their first insertion and each holds the last entry inserted
\* under it; the loop over its items leaves in uexp_entry / uasset_entry the
\* last item with the suffix.  The result is an index in entries, 0 for None.
TargetIndices(entries) ==
    {i \in 1..Len(entries) : Contains(entries[i].path, ENUM_PROFESSIONS)}

SetMax(S) == CHOOSE m \in S : \A x \in S : x <= m

SetMin(S) == CHOOSE m \in S : \A x \in S : m <= x

SelectBySuffix(entries, wanted) ==
    LET T == TargetIndices(entries)
        First(i) == SetMin({j \in T : entries[j].path = entries[i].path})
        Last(i) == SetMax({j \in T : entries[j].path = entries[i].path})
        C == {i \in T : wanted[i]}
    IN  IF C = {} THEN 0
        ELSE Last(CHOOSE i \in C : \A j \in C : First(j) <= First(i))

\* Lines 228-253: exit(1) when no Enum_Professions file or no .uexp is listed.
EnumSelect ==
    /\ pc = "enum_select"
    /\ LET isUexp == [i \in 1..Len(dir_entries) |->
                         EndsWith(dir_entries[i].path, DOT_UEXP)]
           isUasset == [i \in 1..Len(dir_entries) |->
                           ~isUexp[i] /\ EndsWith(dir_entries[i].path, DOT_UASSET)]
           u == SelectBySuffix(dir_entries, isUexp)
       IN  /\ uexp_entry' = u
           /\ uasset_entry' = SelectBySuffix(dir_entries, isUasset)
           /\ IF TargetIndices(dir_entries) = {} \/ u = 0
              THEN Finish("exit") ELSE Continue("enum_uexp")
    /\ UNCHANGED << inputVars, codecVars, callVars, editVars, utilVars, fileVars, pak_info, indexVars, dir_entries,
                    dirVars, matches, mi, extracted, outcomes, out_files >>

\* Lines 256-271: the .uexp extraction.  Nothing catches an exception here.
EnumUexp ==
    /\ pc = "enum_uexp"
    /\ LET d == decode_entry(encoded_data, dir_entries[uexp_entry].encoded_offset)
       IN  IF d.err # "none"
           THEN /\ Crash(d.err)
                /\ outcomes' = Append(outcomes,
                       Outcome("uexp", uexp_entry, "CRASH", d, d.err, "none",
                               << >>, << >>))
                /\ UNCHANGED << fileVars, out_files >>
           ELSE IF ~Sane(d.entry, Len(pak), ENUM_MAX_SIZE)
           THEN /\ Finish("exit")
                /\ outcomes' = Append(outcomes,
                       Outcome("uexp", uexp_entry, "EXIT", d, "none", "none",
                               << >>, << >>))
                /\ UNCHANGED << fileVars, out_files >>
           ELSE
           LET x == extract_file(pak, fpos, d.entry, HAS_PYCRYPTODOME)
           IN  /\ io_log' = io_log \o x.io
               /\ fpos' = x.pos
               /\ IF x.err # "none"
                  THEN /\ Crash(x.err)
                       /\ outcomes' = Append(outcomes,
                              Outcome("uexp", uexp_entry, "CRASH", d, x.err,
                                      "none", << >>, x.io))
                       /\ UNCHANGED out_files
                  ELSE /\ Continue("enum_uasset")
                       /\ outcomes' = Append(outcomes,
                              Outcome("uexp", uexp_entry, "OK", d, "none",
                                      "extract_file", x.data, x.io))
                       /\ out_files' = Append(out_files,
                              [name |-> ENUM_PROFESSIONS \o DOT_UEXP,
                               data |-> x.data])
    /\ UNCHANGED << inputVars, codecVars, callVars, editVars, utilVars, pak_info, indexVars, dir_entries, dirVars,
                    matches, mi, extracted, uexp_entry, uasset_entry >>

\* Lines 273-298: the .uasset extraction, with its fallback to
\* extract_compressed_file.  What follows in main (building and printing the
\* mapping from the extracted data) touches none of the state modelled here.
EnumUasset ==
    /\ pc = "enum_uasset"
    /\ IF uasset_entry = 0
       THEN /\ Finish("returned")
            /\ UNCHANGED << fileVars, outcomes, out_files >>
       ELSE
       LET d == decode_entry(encoded_data, dir_entries[uasset_entry].encoded_offset)
       IN  IF d.err # "none"
           THEN /\ Crash(d.err)
                /\ outcomes' = Append(outcomes,
                       Outcome("uasset", uasset_entry, "CRASH", d, d.err, "none",
                               << >>, << >>))
                /\ UNCHANGED << fileVars, out_files >>
           ELSE
           LET compressed == d.entry.full_entry \/ d.entry.compression # 0
               first == IF compressed
                        THEN extract_compressed_file(pak, fpos, d.entry)
                        ELSE extract_file(pak, fpos, d.entry, HAS_PYCRYPTODOME)
               second == extract_compressed_file(pak, first.pos, d.entry)
               x == IF first.err = "none" THEN first ELSE second
               io == IF first.err = "none" THEN first.io ELSE first.io \o second.io
               via == IF first.err # "none" \/ compressed
                      THEN "extract_compressed_file" ELSE "extract_file"
           IN  /\ io_log' = io_log \o io
               /\ fpos' = x.pos
               /\ Finish("returned")
               /\ IF x.err # "none"
                  THEN /\ outcomes' = Append(outcomes,
                              Outcome("uasset", uasset_entry, "ERROR", d, x.err,
                                      "none", << >>, io))
                       /\ UNCHANGED out_files
                  ELSE /\ outcomes' = Append(outcomes,
                              Outcome("uasset", uasset_entry, "OK", d, "none",
                                      via, x.data, io))
                       /\ out_files' = IF x.data # << >>
                                       THEN Append(out_files,
                                              [name |-> ENUM_PROFESSIONS \o DOT_UASSET,
                                               data |-> x.data])
                                       ELSE out_files
    /\ UNCHANGED << inputVars, codecVars, callVars, editVars, utilVars, pak_info, indexVars, dir_entries, dirVars,
                    matches, mi, extracted, uexp_entry, uasset_entry >>

\* ------------------------------------------------------------------------
\* The runs of the model: the containers and command lines Init draws from
\* ------------------------------------------------------------------------

\* The magic the footer of a pak file starts with (0x5A6F12E1).  The code
\* names no such constant: read_pak_info stores whatever it reads.
ExpectedMagic == 1517228769

BadMagic == 305419896       \* 0x12345678

MaxDirs == 2        \* directories of a directory tree

MaxFiles == 2       \* files of one directory

NoDamage == [kind |-> "none", keep |-> 0, at |-> 0, value |-> 0]

Cut(keep) == [kind |-> "cut", keep |-> keep, at |-> 0, value |-> 0]

BadLength(at, value) == [kind |-> "len", keep |-> 0, at |-> at, value |-> value]

BadCount(at, value) == [kind |-> "count", keep |-> 0, at |-> at, value |-> value]

\* Names and encoded offsets of the directory trees: "A/", "B/", ... hold
\* "a", "b", ...; names alternate between the single-byte and the wide form
\* and every third file has the empty name.
DirText(i) == << 64 + i, 47 >>

FileText(j) == IF j % 3 = 0 THEN << >> ELSE << 96 + j >>

NameStyle(k) == IF k % 3 = 0 THEN "e" ELSE IF k % 2 = 1 THEN "a" ELSE "w"

TreeOffset(i, j) == IF i = 2 /\ j = 2 THEN -1 ELSE 100 * (i - 1) + 7 * j

TreeOf(shape) ==
    [i \in 1..Len(shape) |->
        [name |-> DirText(i), style |-> IF i % 2 = 1 THEN "a" ELSE "w",
         files |-> [j \in 1..shape[i] |->
                       [name |-> FileText(j), style |-> NameStyle(j),
                        encoded_offset |-> TreeOffset(i, j)]]]]

Shapes == UNION {[1..n -> 0..MaxFiles] : n \in 0..MaxDirs}

RECURSIVE SumFiles(_)
SumFiles(tree) ==
    IF Len(tree) = 0 THEN 0 ELSE Len(Head(tree).files) + SumFiles(Tail(tree))

\* Where the records of a directory block start and end.
DirStart(tree, i) == Len(DirBlockBytes(SubSeq(tree, 1, i - 1)))

FileStart(tree, i, j) ==
    DirStart(tree, i) + Len(FStringBytes(tree[i].name, tree[i].style)) + 4
      + Len(Concat([k \in 1..(j - 1) |-> FileRecordBytes(tree[i].files[k])]))

FileEnd(tree, i, j) == FileStart(tree, i, j) + Len(FileRecordBytes(tree[i].files[j]))

FilePositions(tree) ==
    {ij \in (1..Len(tree)) \X (1..MaxFiles) : ij[2] <= Len(tree[ij[1]].files)}

\* The positions of the length prefixes of a directory block.
LengthPositions(tree) ==
    {DirStart(tree, i) : i \in 1..Len(tree)}
      \cup {FileStart(tree, ij[1], ij[2]) : ij \in FilePositions(tree)}

OversizedLengths == {1000, -1000, INT_MAX}

DamagesOf(tree) ==
    {NoDamage}
      \cup {Cut(k) : k \in 0..(Len(DirBlockBytes(tree)) - 1)}
      \cup {BadLength(p, v) : p \in LengthPositions(tree), v \in OversizedLengths}

SmallBody == << 1, 2, 3, 4, 5, 6, 7, 8 >>

\* A stored file of 6 bytes at offset 4 of SmallBody, as a compact record.
StoredEntry ==
    [off_base |-> "abs", off_delta |-> 4, size |-> 6, uncomp |-> 6, method |-> 0,
     enc |-> FALSE, chunk |-> 0, blocks |-> << >>]

\* The containers of the directory decoder: every tree shape, undamaged and
\* with every damage, unencrypted; the undamaged ones encrypted as well.
DirContainer(shape, damage, encrypted) ==
    [kind |-> "dir", magic |-> ExpectedMagic, encrypted |-> encrypted,
     comp_count |-> 1, mount |-> << 46, 46, 47 >>,
     num_entries |-> SumFiles(TreeOf(shape)), has_path_hash |-> 1,
     has_full_dir |-> 1, tree |-> TreeOf(shape), damage |-> damage,
     records |-> << [e |-> StoredEntry, form |-> "compact", w32 |-> TRUE] >>,
     body |-> SmallBody, tiny |-> FALSE]

DirContainers ==
    {DirContainer(sh, dmg, FALSE) : sh \in Shapes, dmg \in {NoDamage}}
      \cup UNION {{DirContainer(sh, dmg, FALSE) : dmg \in DamagesOf(TreeOf(sh))}
                     : sh \in Shapes}
      \cup {DirContainer(sh, NoDamage, TRUE) : sh \in Shapes}

\* The positions of the counts of a directory block: the directory count,
\* and the file count behind the name of each directory.
CountPositions(tree) ==
    {0} \cup {DirStart(tree, i) + Len(FStringBytes(tree[i].name, tree[i].style)) :
                 i \in 1..Len(tree)}

\* Counts a block does not hold: negative ones, one more than any tree has,
\* and the largest 32-bit value.
BadCounts == {-1, INT_MIN, MaxFiles + 1, INT_MAX}

\* The containers of the counts: every tree shape, one of its counts
\* overwritten.
CountContainers ==
    UNION {{[DirContainer(sh, BadCount(p, v), FALSE) EXCEPT !.kind = "counts"] :
               p \in CountPositions(TreeOf(sh)), v \in BadCounts}
              : sh \in Shapes}

\* The containers of the directory descriptor: a well-formed tree whose
\* descriptor is present or absent and whose block lies after a body or at
\* offset 0 of the file.
DescriptorContainers ==
    {[DirContainer(<< 1, 1 >>, NoDamage, FALSE)
         EXCEPT !.has_full_dir = present, !.body = body] :
        present \in {0, 1}, body \in {<< >>, SmallBody}}

\* The containers of the index parser: the mount point "../" or "./" with
\* its true length declared (4 or 3 bytes, 4 or 3 code units) or a length
\* that reaches past the end of the index; the index holds neither
\* descriptor, and the table holds one record, in
\* the compact form (an index of even length) or the full form (odd).
MountDeclaredChoices == {3, 4, 1000, INT_MAX, -3, -4, -1000, INT_MIN}

IndexContainers ==
    {[kind |-> "index", magic |-> ExpectedMagic, encrypted |-> enc,
      comp_count |-> 1, mount |-> mount, mount_declared |-> declared,
      num_entries |-> 1, has_path_hash |-> 0, has_full_dir |-> 0,
      tree |-> TreeOf(<< 1 >>), damage |-> NoDamage,
      records |-> << [e |-> StoredEntry, form |-> form, w32 |-> TRUE] >>,
      body |-> SmallBody, tiny |-> FALSE] :
        enc \in BOOLEAN, mount \in {<< 46, 46, 47 >>, << 46, 47 >>},
        declared \in MountDeclaredChoices, form \in {"compact", "full"}}

\* The containers of the table length: a tree of two files behind a
\* path-hash descriptor that is absent (0) or present (1, or another non-zero
\* flag), and a table of one record whose length the index declares truly or
\* not.
TableContainers ==
    {[DirContainer(<< 2 >>, NoDamage, enc)
         EXCEPT !.kind = "table", !.has_path_hash = flag]
       @@ [table_declared |-> declared] :
        enc \in BOOLEAN, flag \in {0, 1, 2},
        declared \in {"true", "zero", "negative", "short", "long"}}

\* The body of the extraction containers: a stored file of 6 bytes at offset
\* 4, and at offset 16 a compressed file: its inline header (method
\* nested_method, one block) followed by a payload of STORED_SIZE - 2 bytes.
STORED_AT == 4

STORED_SIZE == 6

COMPRESSED_AT == 16

EntryBody(nested_method) ==
    [i \in 1..COMPRESSED_AT |-> 130 + i]
      \o PackI64(0) \o PackI64(STORED_SIZE - 2) \o PackI64(STORED_SIZE)
      \o PackI32(nested_method) \o Zeros(20) \o PackI32(1)
      \o PackI64(73) \o PackI64(77) \o << 0 >> \o PackI32(65536)
      \o << 120, 11, 22, 33 >> \o << 7, 7, 7 >>

\* The files the extraction containers list: "D/Enum_Professions.uexp" for
\* record 1 and "D/Enum_Professions.uasset" for record 2.
EnumTree(records) ==
    << [name |-> << 68, 47 >>, style |-> "a",
        files |-> << [name |-> ENUM_PROFESSIONS \o DOT_UEXP, style |-> "a",
                      encoded_offset |-> RecordOffset(records, 1)],
                     [name |-> ENUM_PROFESSIONS \o DOT_UASSET, style |-> "w",
                      encoded_offset |-> RecordOffset(records, 2)] >>] >>

\* Body offsets and on-disk sizes around the bounds of the validation.
OffsetChoices ==
    {<< "abs", -1 >>, << "abs", 0 >>, << "abs", STORED_AT >>,
     << "abs", COMPRESSED_AT >>, << "eof", 0 >>, << "eof", 1 >>}

SizeChoices == {-1, 0, STORED_SIZE, ENUM_MAX_SIZE, PAK_READER_MAX_SIZE}

\* The records swept: every offset, size and encrypted flag, as a compact
\* record with method 0, 1 or 2 and as a full record with method 0, 1, 2 or 63.
FormChoices ==
    {<< "compact", m >> : m \in {0, 1, 2}} \cup {<< "full", m >> : m \in {0, 1, 2, 63}}

SweptRecord(off, size, enc, fm) ==
    [e |-> [off_base |-> off[1], off_delta |-> off[2], size |-> size,
            uncomp |-> IF fm[2] = 0 THEN size ELSE STORED_SIZE,
            method |-> fm[2], enc |-> enc,
            chunk |-> IF fm[2] = 0 THEN 0 ELSE 65536,
            blocks |-> IF fm[2] = 0 THEN << >> ELSE << << 73, 77 >> >>],
     form |-> fm[1], w32 |-> FALSE]

SweptRecords ==
    {SweptRecord(off, size, enc, fm) :
        off \in OffsetChoices, size \in SizeChoices, enc \in BOOLEAN,
        fm \in FormChoices}

DefaultRecord == [e |-> StoredEntry, form |-> "compact", w32 |-> TRUE]

EntryContainer(records, nested_method, encrypted) ==
    [kind |-> "entry", magic |-> ExpectedMagic, encrypted |-> encrypted,
     comp_count |-> 1, mount |-> << 46, 46, 47 >>, num_entries |-> 2,
     has_path_hash |-> 0, has_full_dir |-> 1, tree |-> EnumTree(records),
     damage |-> NoDamage, records |-> records, body |-> EntryBody(nested_method),
     tiny |-> FALSE]

\* The containers of the extraction paths: the swept record as the .uexp or
\* as the .uasset file next to a well-formed stored file; the inline header
\* of the compressed file with the supported and with another method.
EntryContainers ==
    {EntryContainer(<< r, DefaultRecord >>, 1, FALSE) : r \in SweptRecords}
      \cup {EntryContainer(<< DefaultRecord, r >>, 1, FALSE) : r \in SweptRecords}
      \cup {EntryContainer(<< DefaultRecord, r >>, 2, FALSE) :
                r \in {x \in SweptRecords : x.e.off_delta = COMPRESSED_AT}}

\* A compressed stream of one cipher block: the zlib header byte and 15
\* payload bytes.
NESTED_STREAM == << 120 >> \o [i \in 1..(AES_BLOCK - 1) |-> 40 + i]

\* The body with the compressed file in one block, the inline header in the
\* layout extract_compressed_file reads; with b_encrypted = 1 the block is
\* stored encrypted.
NestedBody(b_encrypted) ==
    [i \in 1..COMPRESSED_AT |-> 130 + i]
      \o PackI64(0) \o PackI64(AES_BLOCK) \o PackI64(2 * (AES_BLOCK - 1))
      \o PackI32(1) \o Zeros(20) \o PackI32(1)
      \o PackI64(73) \o PackI64(73 + AES_BLOCK) \o << b_encrypted >>
      \o PackI32(65536)
      \o (IF b_encrypted = 1 THEN EcbEncrypt(NESTED_STREAM) ELSE NESTED_STREAM)
      \o << 7, 7, 7 >>

\* The containers of the compressed extraction: the .uasset record, compact
\* or full, points at the inline header; the block is stored plain or
\* encrypted.
NestedContainers ==
    {[EntryContainer(<< DefaultRecord,
                        SweptRecord(<< "abs", COMPRESSED_AT >>, AES_BLOCK, FALSE, fm) >>,
                     1, FALSE)
         EXCEPT !.kind = "nested", !.body = NestedBody(b_encrypted)] :
        fm \in {<< "compact", 1 >>, << "full", 1 >>}, b_encrypted \in {0, 1}}

\* The containers of the --extract loop: two well-formed stored files, the
\* directory entry of one of them pointing past the end of the table or
\* into the middle of a record.
LoopContainers ==
    {[EntryContainer(<< DefaultRecord, DefaultRecord >>, 1, FALSE)
         EXCEPT !.kind = "loop", !.tree[1].files[k].encoded_offset = at] :
        k \in {1, 2}, at \in {1000, 2}}

\* The containers of the footer reader: both magics, unencrypted and
\* encrypted, and a file shorter than the footer.
FooterContainers ==
    {[EntryContainer(<< DefaultRecord, DefaultRecord >>, 1, enc)
         EXCEPT !.kind = "footer", !.magic = m, !.comp_count = n] :
        m \in {ExpectedMagic, BadMagic}, enc \in BOOLEAN, n \in {0, 2}}
      \cup {[EntryContainer(<< DefaultRecord, DefaultRecord >>, 1, FALSE)
                EXCEPT !.kind = "footer", !.tiny = TRUE, !.body = SmallBody]}

\* Command lines of pak_reader: the patterns are 'enum_' and 'UASSET'.
Args(info, list, search, extract) ==
    [info |-> info, list |-> list, search |-> search, extract |-> extract]

PATTERN_ENUM == << 101, 110, 117, 109, 95 >>

PATTERN_UASSET == << 85, 65, 83, 83, 69, 84 >>

NoArgs == Args(FALSE, FALSE, << >>, << >>)

ListArgs == Args(FALSE, TRUE, << >>, << >>)

ExtractArgs == Args(FALSE, FALSE, << >>, PATTERN_ENUM)

FooterArgs ==
    {NoArgs, ListArgs, ExtractArgs,
     Args(TRUE, FALSE, << >>, << >>),
     Args(TRUE, TRUE, PATTERN_ENUM, << >>),
     Args(FALSE, FALSE, PATTERN_UASSET, PATTERN_UASSET)}

Run(p, a, c, has) == [prog |-> p, args |-> a, cfg |-> c, has |-> has]

\* The cipher library is missing only in runs that need it.
NeedsCipher(c) == c.encrypted \/ \E k \in 1..Len(c.records) : c.records[k].e.enc

CipherChoices(c) == IF NeedsCipher(c) THEN BOOLEAN ELSE {TRUE}

Runs ==
    {r \in {Run("pak_reader", a, c, has) :
                a \in FooterArgs, c \in FooterContainers, has \in BOOLEAN}
              \cup {Run("extract_enums", NoArgs, c, has) :
                        c \in FooterContainers \cup EntryContainers
                                 \cup NestedContainers,
                        has \in BOOLEAN}
              \cup {Run("pak_reader", ListArgs, c, has) :
                        c \in DirContainers \cup DescriptorContainers
                                 \cup IndexContainers \cup TableContainers
                                 \cup CountContainers,
                        has \in BOOLEAN}
              \cup {Run("pak_reader", ExtractArgs, c, has) :
                        c \in EntryContainers \cup LoopContainers,
                        has \in BOOLEAN} :
        r.has \in CipherChoices(r.cfg)}

\* The state in which main() of run r starts.
InitRun(r) ==
    /\ prog = r.prog
    /\ args = r.args
    /\ HAS_PYCRYPTODOME = r.has
    /\ cfg = r.cfg
    /\ pak = BuildPak(r.cfg)
    /\ pc = "start"
    /\ status = "running"
    /\ exc = "none"
    /\ fpos = 0
    /\ io_log = << >>
    /\ pak_info = NoInfo
    /\ mount_point = << >>
    /\ num_entries = 0
    /\ encoded_data = << >>
    /\ dir_entries = << >>
    /\ dir_stream = << >>
    /\ dpos = 0
    /\ dirs_left = 0
    /\ files_left = 0
    /\ dir_name = << >>
    /\ warned = FALSE
    /\ matches = << >>
    /\ mi = 1
    /\ extracted = 0
    /\ outcomes = << >>
    /\ out_files = << >>
    /\ uexp_entry = 0
    /\ uasset_entry = 0
    /\ byte_offsets = << >>
    /\ decode_results = << >>
    /\ NoCalls
    /\ NoUtils
    /\ NoEdits

Init == \E r \in Runs : InitRun(r)

Next ==
    \/ MainOpen
    \/ ReadIndexHead
    \/ DirCount
    \/ DirHeader
    \/ DirLoopEnd
    \/ DirFile
    \/ FileLoopEnd
    \/ IndexReturn
    \/ MainOps
    \/ ExtractStep
    \/ ExtractEnd
    \/ EnumSelect
    \/ EnumUexp
    \/ EnumUasset

Spec == Init /\ [][Next]_vars

\* pak_reader --list alone, on the directory blocks with a bad count, the
\* undamaged ones and those with a bad length; the directory loop is
\* sequential code: it takes its next step whenever it has one.
ListRuns ==
    {Run("pak_reader", ListArgs, c, TRUE) :
        c \in CountContainers
                \cup {DirContainer(sh, NoDamage, FALSE) : sh \in Shapes}
                \cup UNION {{DirContainer(sh, BadLength(p, v), FALSE) :
                                p \in LengthPositions(TreeOf(sh)),
                                v \in OversizedLengths}
                               : sh \in Shapes}}

InitList == \E r \in ListRuns : InitRun(r)

NextList ==
    \/ MainOpen
    \/ ReadIndexHead
    \/ DirCount
    \/ DirHeader
    \/ DirLoopEnd
    \/ DirFile
    \/ FileLoopEnd
    \/ IndexReturn
    \/ MainOps

\* A step of the directory loop of read_pak_index.
DirLoopStep == DirCount \/ DirHeader \/ DirLoopEnd \/ DirFile \/ FileLoopEnd

SpecList == InitList /\ [][NextList]_vars /\ WF_vars(DirLoopStep)

\* ------------------------------------------------------------------------
\* decode_entry alone: tables of one or two records, decoded at chosen offsets
\* ------------------------------------------------------------------------

\* A logical file: what a record of either form stores about one file.
LogicalFile(offset, size, uncomp, method, enc, chunk, blocks) ==
    [offset |-> offset, size |-> size, uncomp |-> uncomp, method |-> method,
     enc |-> enc, chunk |-> chunk, blocks |-> blocks]

ONE_BLOCK == << << 73, 79 >> >>

TWO_BLOCKS == << << 73, 78 >>, << 78, 82 >> >>

\* Sizes, method, chunk size and block list of the files the tables describe:
\* stored and compressed files, consistent ones and inconsistent ones.
FileKinds ==
    { [size |-> 6, uncomp |-> 6, method |-> 0, chunk |-> 0, blocks |-> << >>],
      [size |-> 5, uncomp |-> 9, method |-> 0, chunk |-> 0, blocks |-> << >>],
      [size |-> 6, uncomp |-> 6, method |-> 0, chunk |-> 8, blocks |-> ONE_BLOCK],
      [size |-> 6, uncomp |-> 12, method |-> 1, chunk |-> 65536, blocks |-> ONE_BLOCK],
      [size |-> 9, uncomp |-> 12, method |-> 1, chunk |-> 8, blocks |-> TWO_BLOCKS],
      [size |-> 6, uncomp |-> 12, method |-> 1, chunk |-> 0, blocks |-> << >>],
      [size |-> 6, uncomp |-> 12, method |-> 2, chunk |-> 8, blocks |-> ONE_BLOCK] }

LogicalFiles ==
    { LogicalFile(off, k.size, k.uncomp, k.method, enc, k.chunk, k.blocks) :
        off \in {5, 70000}, k \in FileKinds, enc \in BOOLEAN }

\* A file both forms can describe: a stored file has one size and neither
\* chunk size nor blocks, a compressed file has blocks.
Representable(e) ==
    IF e.method = 0 THEN e.size = e.uncomp /\ e.chunk = 0 /\ e.blocks = << >>
    ELSE e.blocks # << >>

\* The offsets a table of length n holding a record at 0 is decoded at: the
\* record, and positions off it, before the table and at its end.
OffsetsOf(n) == {-1, 0, 1, 2, n - 3, n}

\* One call sequence: the table, the offsets to decode at, and what the table
\* was built from (pair: a full and a compact record of the same file e).
CodecCase(table, offsets, e, form, w32) ==
    [kind |-> "codec", table |-> table, offsets |-> offsets, e |-> e,
     form |-> form, w32 |-> w32,
     widths |-> [size |-> w32, uncomp |-> w32, offset |-> w32]]

\* A compact record of e as the format lays it out, each width bit chosen on
\* its own: after the offset and the uncompressed size a compressed file has
\* its on-disk size, its chunk size and one raw 8-byte pair per block.
CompactFormatBytes(e, widths) ==
    LET pk(v, is32) == IF is32 THEN PackI32(v) ELSE PackI64(v)
    IN  FlagsBytes(e.method, e.enc, Len(e.blocks),
                   widths.size, widths.uncomp, widths.offset)
          \o pk(e.offset, widths.offset) \o pk(e.uncomp, widths.uncomp)
          \o (IF e.method # 0
              THEN pk(e.size, widths.size) \o PackI32(e.chunk)
                     \o Concat([k \in 1..Len(e.blocks) |->
                                   PackI32(e.blocks[k][1]) \o PackI32(e.blocks[k][2])])
              ELSE << >>)

Widths == [size : BOOLEAN, uncomp : BOOLEAN, offset : BOOLEAN]

\* The files of the chained tables: those above, and a compressed file that
\* has a chunk size and no block.
FormatFiles ==
    LogicalFiles
      \cup { LogicalFile(off, 6, 12, 1, enc, 65536, << >>) :
               off \in {5, 70000}, enc \in BOOLEAN }

\* A table of two contiguous records, a compact one of e and a full one of e,
\* each decoded at its own position.
ChainCase(e, widths) ==
    [kind |-> "codec",
     table |-> CompactFormatBytes(e, widths) \o FullRecordBytes(e),
     offsets |-> << 0, Len(CompactFormatBytes(e, widths)) >>,
     e |-> e, form |-> "chain", w32 |-> widths.offset, widths |-> widths]

CodecCases ==
    UNION {{CodecCase(FullRecordBytes(e), << o >>, e, "full", FALSE) :
               o \in OffsetsOf(Len(FullRecordBytes(e)))} : e \in LogicalFiles}
      \cup UNION {{CodecCase(CompactRecordBytes(e, w), << o >>, e, "compact", w) :
                      o \in OffsetsOf(Len(CompactRecordBytes(e, w)))}
                     : e \in LogicalFiles, w \in BOOLEAN}
      \cup {CodecCase(FullRecordBytes(e) \o CompactRecordBytes(e, w),
                      << 0, Len(FullRecordBytes(e)) >>, e, "pair", w)
               : e \in {f \in LogicalFiles : Representable(f)}, w \in BOOLEAN}
      \cup {ChainCase(e, widths) : e \in FormatFiles, widths \in Widths}

InitCodec ==
    \E c \in CodecCases :
        /\ prog = "decode_entry"
        /\ args = NoArgs
        /\ HAS_PYCRYPTODOME = TRUE
        /\ cfg = [kind |-> "codec", e |-> c.e, form |-> c.form, w32 |-> c.w32,
                  widths |-> c.widths]
        /\ pak = << >>
        /\ pc = "decode"
        /\ status = "running"
        /\ exc = "none"
        /\ fpos = 0
        /\ io_log = << >>
        /\ pak_info = NoInfo
        /\ mount_point = << >>
        /\ num_entries = 0
        /\ encoded_data = c.table
        /\ dir_entries = << >>
        /\ dir_stream = << >>
        /\ dpos = 0
        /\ dirs_left = 0
        /\ files_left = 0
        /\ dir_name = << >>
        /\ warned = FALSE
        /\ matches = << >>
        /\ mi = 1
        /\ extracted = 0
        /\ outcomes = << >>
        /\ out_files = << >>
        /\ uexp_entry = 0
        /\ uasset_entry = 0
        /\ byte_offsets = c.offsets
        /\ decode_results = << >>
        /\ NoCalls
        /\ NoUtils
        /\ NoEdits

\* One call decode_entry(encoded_data, byte_offset), its result kept.
CodecDecode ==
    /\ pc = "decode"
    /\ byte_offsets # << >>
    /\ decode_results' = Append(decode_results,
                                decode_entry(encoded_data, Head(byte_offsets)))
    /\ byte_offsets' = Tail(byte_offsets)
    /\ UNCHANGED << inputVars, pc, status, exc, fileVars, pak_info, indexVars,
                    dir_entries, dirVars, mainVars, callVars, editVars, utilVars >>

NextCodec == CodecDecode

SpecCodec == InitCodec /\ [][NextCodec]_vars

\* ------------------------------------------------------------------------
\* utils.py alone: read_fstring on a stream, aes_decrypt_ecb on a buffer
\* ------------------------------------------------------------------------

\* The texts of the FStrings read, some of them with null characters, and
\* the bytes that follow an FString in its stream.
FStringTexts ==
    { << >>, << 65 >>, << 65, 66 >>, << 65, 0 >>, << 65, 0, 0 >>, << 0 >>, << 200 >> }

StreamTails == { << >>, << 7, 7, 7 >> }

\* read_fstring(stream) with the stream at position pos.
FStringCall(stream, pos) == [fn |-> "read_fstring", data |-> stream, pos |-> pos]

\* Streams holding an FString of each form at position 0 or 2, whole or
\* with its last cut bytes missing.
FStringCalls ==
    { FStringCall(SubSeq(Zeros(lead) \o FStringBytes(t, style) \o tail, 1,
                         lead + Len(FStringBytes(t, style)) + Len(tail) - cut),
                  lead) :
        lead \in {0, 2}, t \in FStringTexts, style \in {"a", "w"},
        tail \in StreamTails, cut \in {0, 1} }
      \cup { FStringCall(Zeros(lead) \o FStringBytes(<< >>, "e") \o tail, lead) :
                lead \in {0, 2}, tail \in StreamTails }

\* aes_decrypt_ecb(data, AES_KEY).
AesCall(data) == [fn |-> "aes_decrypt_ecb", data |-> data, pos |-> 0]

\* The lengths of the buffers decrypted: around the multiples of 16.
AesLengths == {0, 1, 15, 16, 17, 31, 32, 33}

AesCalls ==
    { AesCall([i \in 1..n |-> (step * i + first) % 256]) :
        n \in AesLengths, step \in {0, 7}, first \in {0, 250} }

InitUtils ==
    \E c \in FStringCalls \cup AesCalls :
        /\ prog = "utils"
        /\ args = NoArgs
        /\ HAS_PYCRYPTODOME \in BOOLEAN
        /\ c.fn = "read_fstring" => HAS_PYCRYPTODOME
        /\ cfg = [kind |-> "utils"]
        /\ pak = << >>
        /\ pc = "utils"
        /\ status = "running"
        /\ exc = "none"
        /\ fpos = 0
        /\ io_log = << >>
        /\ pak_info = NoInfo
        /\ mount_point = << >>
        /\ num_entries = 0
        /\ encoded_data = << >>
        /\ dir_entries = << >>
        /\ dir_stream = << >>
        /\ dpos = 0
        /\ dirs_left = 0
        /\ files_left = 0
        /\ dir_name = << >>
        /\ warned = FALSE
        /\ matches = << >>
        /\ mi = 1
        /\ extracted = 0
        /\ outcomes = << >>
        /\ out_files = << >>
        /\ uexp_entry = 0
        /\ uasset_entry = 0
        /\ byte_offsets = << >>
        /\ decode_results = << >>
        /\ NoCalls
        /\ NoEdits
        /\ util_calls = << c >>
        /\ util_results = << >>

notUtilVars == << inputVars, pc, status, exc, fileVars, pak_info, indexVars,
                  dir_entries, dirVars, mainVars, codecVars, callVars, editVars >>

\* One call read_fstring(stream): what it returns or raises, and the
\* position it leaves the stream at.
ReadFString ==
    /\ pc = "utils"
    /\ util_calls # << >>
    /\ Head(util_calls).fn = "read_fstring"
    /\ \E r \in {read_fstring(Head(util_calls).data, Head(util_calls).pos)} :
           util_results' = Append(util_results,
               [call |-> Head(util_calls), err |-> r.err, val |-> r.val,
                pos |-> r.pos])
    /\ util_calls' = Tail(util_calls)
    /\ UNCHANGED notUtilVars

\* One call aes_decrypt_ecb(data, key): ImportError without the cipher
\* library, otherwise the buffer handed to the cipher and the bytes returned.
AesDecrypt ==
    /\ pc = "utils"
    /\ util_calls # << >>
    /\ Head(util_calls).fn = "aes_decrypt_ecb"
    /\ util_results' = Append(util_results,
           IF HAS_PYCRYPTODOME
           THEN [call |-> Head(util_calls), err |-> "none",
                 padded |-> PaddedInput(Head(util_calls).data),
                 val |-> aes_decrypt_ecb(Head(util_calls).data)]
           ELSE [call |-> Head(util_calls), err |-> "ImportError",
                 padded |-> << >>, val |-> << >>])
    /\ util_calls' = Tail(util_calls)
    /\ UNCHANGED notUtilVars

NextUtils == ReadFString \/ AesDecrypt

SpecUtils == InitUtils /\ [][NextUtils]_vars

\* ------------------------------------------------------------------------
\* extract_file alone: two callers, each making its calls one after the
\* other, on a handle of its own or on one handle they share, entering the
\* seek+read pair of a call one at a time
\* ------------------------------------------------------------------------

\* The file the handles are open on, and the cursor positions they start at.
CallFile == [i \in 1..24 |-> 100 + i]

StartCursors == {0, 7}

\* The entries the calls are made with: a stored file, the same bytes
\* flagged encrypted, a file of the method 0x3F, one that runs past the end
\* of the file, one of an unsupported method and one of a negative offset.
CallEntry(offset, size, compression, encrypted) ==
    [offset |-> offset, size |-> size, compression |-> compression,
     encrypted |-> encrypted]

CallEntries ==
    {CallEntry(4, 6, 0, FALSE), CallEntry(4, 6, 0, TRUE), CallEntry(10, 8, 63, FALSE),
     CallEntry(20, 16, 0, FALSE), CallEntry(2, 4, 1, FALSE), CallEntry(-1, 4, 0, FALSE)}

Callers == {1, 2}

\* A caller that is still to make the calls of todo on handle number handle.
\* pc is the statement of extract_file its current call is at ("idle"
\* between calls), data the call's local variable, cur the cursor the call
\* found.
Caller(handle, todo) ==
    [handle |-> handle, todo |-> todo, pc |-> "idle", data |-> << >>, cur |-> 0]

InitCalls ==
    \E shared \in BOOLEAN, has \in BOOLEAN, start \in StartCursors,
       e1 \in CallEntries, e2 \in CallEntries, e3 \in CallEntries :
        /\ prog = "extract_file"
        /\ args = NoArgs
        /\ HAS_PYCRYPTODOME = has
        /\ cfg = [kind |-> "calls", shared |-> shared]
        /\ pak = CallFile
        /\ pc = "calls"
        /\ status = "running"
        /\ exc = "none"
        /\ fpos = 0
        /\ io_log = << >>
        /\ pak_info = NoInfo
        /\ mount_point = << >>
        /\ num_entries = 0
        /\ encoded_data = << >>
        /\ dir_entries = << >>
        /\ dir_stream = << >>
        /\ dpos = 0
        /\ dirs_left = 0
        /\ files_left = 0
        /\ dir_name = << >>
        /\ warned = FALSE
        /\ matches = << >>
        /\ mi = 1
        /\ extracted = 0
        /\ outcomes = << >>
        /\ out_files = << >>
        /\ uexp_entry = 0
        /\ uasset_entry = 0
        /\ byte_offsets = << >>
        /\ decode_results = << >>
        /\ cursors = IF shared THEN << start >> ELSE << start, start >>
        /\ callers = << Caller(1, << e1, e2 >>),
                        Caller(IF shared THEN 1 ELSE 2, << e3 >>) >>
        /\ lock = 0
        /\ returns = << >>
        /\ NoEdits
        /\ NoUtils

\* The call of caller t ends: with exception err, or returning data.
CallEnds(t, err, data) ==
    /\ returns' = Append(returns, [caller |-> t, entry |-> Head(callers[t].todo),
                                    err |-> err, data |-> data,
                                    cur |-> callers[t].cur])
    /\ callers' = [callers EXCEPT ![t].pc = "idle", ![t].data = << >>,
                                   ![t].todo = Tail(@)]

\* Lines 266-270: the call starts; an unsupported method raises ValueError.
CallCheck(t) ==
    /\ pc = "calls"
    /\ callers[t].pc = "idle"
    /\ callers[t].todo # << >>
    /\ IF Head(callers[t].todo).compression \notin {0, 63}
       THEN CallEnds(t, "ValueError", << >>)
       ELSE /\ callers' = [callers EXCEPT ![t].pc = "seek",
                                          ![t].cur = cursors[callers[t].handle]]
            /\ UNCHANGED returns
    /\ UNCHANGED << inputVars, pc, status, exc, fileVars, pak_info, indexVars,
                    dir_entries, dirVars, mainVars, codecVars, editVars, utilVars, cursors, lock >>

\* seek(offset, 1): a seek relative to the cursor.
SeekFromCurrent(cur, offset) == cur + offset

\* Line 272, pak_handle.seek(entry_info['offset']): the position the cursor
\* is moved to, whatever the cursor cur was.
SeekTarget(cur, offset) == offset

\* Line 272.  On a shared handle the caller enters its seek+read pair, which
\* no other caller is in.
CallSeek(t) ==
    /\ pc = "calls"
    /\ callers[t].pc = "seek"
    /\ cfg.shared => lock = 0
    /\ \E target \in {SeekTarget(cursors[callers[t].handle],
                                   Head(callers[t].todo).offset)} :
           IF target < 0
           THEN /\ CallEnds(t, "OSError", << >>)
                /\ UNCHANGED << cursors, lock >>
           ELSE /\ cursors' = [cursors EXCEPT ![callers[t].handle] = target]
                /\ callers' = [callers EXCEPT ![t].pc = "read"]
                /\ lock' = IF cfg.shared THEN t ELSE 0
                /\ UNCHANGED returns
    /\ UNCHANGED << inputVars, pc, status, exc, fileVars, pak_info, indexVars,
                    dir_entries, dirVars, mainVars, codecVars, editVars, utilVars >>

\* A buffer of the module that every call reads into.
SharedBuffer(cs, t, data) == [u \in DOMAIN cs |-> [cs[u] EXCEPT !.data = data]]

\* Line 273, data = pak_handle.read(...): data is a local variable of the
\* call.
LocalData(cs, t, data) == [cs EXCEPT ![t].data = data]

\* Line 273: the read at the handle's cursor, which ends the seek+read pair.
CallRead(t) ==
    /\ pc = "calls"
    /\ callers[t].pc = "read"
    /\ \E data \in {StreamRead(pak, cursors[callers[t].handle],
                                 Head(callers[t].todo).size)} :
           /\ cursors' = [cursors EXCEPT ![callers[t].handle] = @ + Len(data)]
           /\ callers' = [LocalData(callers, t, data) EXCEPT ![t].pc = "decrypt"]
    /\ lock' = 0
    /\ UNCHANGED << inputVars, pc, status, exc, fileVars, pak_info, indexVars,
                    dir_entries, dirVars, mainVars, codecVars, editVars, utilVars, returns >>

\* Lines 275-278: the decryption of a flagged entry, and the return.
CallReturn(t) ==
    /\ pc = "calls"
    /\ callers[t].pc = "decrypt"
    /\ IF Head(callers[t].todo).encrypted
       THEN IF HAS_PYCRYPTODOME
            THEN CallEnds(t, "none", aes_decrypt_ecb(callers[t].data))
            ELSE CallEnds(t, "ImportError", << >>)
       ELSE CallEnds(t, "none", callers[t].data)
    /\ UNCHANGED << inputVars, pc, status, exc, fileVars, pak_info, indexVars,
                    dir_entries, dirVars, mainVars, codecVars, editVars, utilVars, cursors, lock >>

NextCalls ==
    \E t \in Callers :
        \/ CallCheck(t)
        \/ CallSeek(t)
        \/ CallRead(t)
        \/ CallReturn(t)

SpecCalls == InitCalls /\ [][NextCalls]_vars

\* ------------------------------------------------------------------------
\* The save editors: edit_profession.py and edit_stats.py
\* ------------------------------------------------------------------------

\* Python's data[a:b], data[:k] and data[k:]: a negative bound counts from
\* the end, and both bounds are clipped to the data.
PyClamp(d, k) == IF k < 0 THEN Max(k + Len(d), 0) ELSE Min(k, Len(d))

PySlice(d, a, b) ==
    IF PyClamp(d, a) >= PyClamp(d, b) THEN << >>
    ELSE SubSeq(d, PyClamp(d, a) + 1, PyClamp(d, b))

UpTo(d, k) == PySlice(d, 0, k)

From(d, k) == PySlice(d, k, Len(d))

\* The offsets at which pat occurs in d, and bytes.find(pat, start): the
\* first of them from start on, -1 when there is none.
Occurrences(d, pat) ==
    {i \in 0..(Len(d) - Len(pat)) :
        d[i + 1] = pat[1] /\ SubSeq(d, i + 1, i + Len(pat)) = pat}

Least(S) == CHOOSE i \in S : \A j \in S : i <= j

Find(d, pat, start) ==
    IF {i \in Occurrences(d, pat) : i >= start} = {} THEN -1
    ELSE Least({i \in Occurrences(d, pat) : i >= start})

\* A set of numbers as the increasing list.
RECURSIVE Ascending(_)
Ascending(S) ==
    IF S = {} THEN << >> ELSE << Least(S) >> \o Ascending(S \ {Least(S)})

\* utils.find_all_bytes(data, needle): every offset, overlapping ones too.
find_all_bytes(d, needle) == Ascending(Occurrences(d, needle))

\* struct.unpack_from('<i', d, off) and struct.unpack_from('<Q', d, off), for
\* an offset with the bytes of the value inside d.
I32At(d, off) == UnpackI32(SubSeq(d, off + 1, off + 4))

U64At(d, off) == UnpackU64(SubSeq(d, off + 1, off + 8))

\* str(n) for the numbers of the model, -1..99.
Str(n) ==
    IF n < 0 THEN << 45 >> \o << 48 - n >>
    ELSE IF n < 10 THEN << 48 + n >>
    ELSE << 48 + (n \div 10), 48 + (n % 10) >>

IsDigit(ch) == ch >= 48 /\ ch <= 57

\* The number the digits of text denote, for a text of digits only that
\* denotes a number below 2^31.
RECURSIVE DigitsValue(_)
DigitsValue(text) ==
    IF text = << >> THEN 0
    ELSE 10 * DigitsValue(SubSeq(text, 1, Len(text) - 1)) + (text[Len(text)] - 48)

STEAMID_PROP ==    \* b'SteamID_67_6AFAA3B54A4447673EFF4D94BA0F84A7'
    << 83, 116, 101, 97, 109, 73, 68, 95, 54, 55, 95, 54, 65, 70, 65, 65,
       51, 66, 53, 52, 65, 52, 52, 52, 55, 54, 55, 51, 69, 70, 70, 52, 68,
       57, 52, 66, 65, 48, 70, 56, 52, 65, 55 >>

STARTING_PERK_PROP ==    \* b'StartingPerk_94_283EA71B427B7E97C43350818608A5E4'
    << 83, 116, 97, 114, 116, 105, 110, 103, 80, 101, 114, 107, 95, 57, 52,
       95, 50, 56, 51, 69, 65, 55, 49, 66, 52, 50, 55, 66, 55, 69, 57, 55,
       67, 52, 51, 51, 53, 48, 56, 49, 56, 54, 48, 56, 65, 53, 69, 52 >>

UNLOCKED_PROF_PROP ==    \* b'UnlockedProfessionArr_17_2528BAE945B7A3B1A49D7893990D13BF'
    << 85, 110, 108, 111, 99, 107, 101, 100, 80, 114, 111, 102, 101, 115,
       115, 105, 111, 110, 65, 114, 114, 95, 49, 55, 95, 50, 53, 50, 56,
       66, 65, 69, 57, 52, 53, 66, 55, 65, 51, 66, 49, 65, 52, 57, 68, 55,
       56, 57, 51, 57, 57, 48, 68, 49, 51, 66, 70 >>

ENUM_PREFIX ==    \* 'Enum_Professions::NewEnumerator'
    << 69, 110, 117, 109, 95, 80, 114, 111, 102, 101, 115, 115, 105, 111,
       110, 115, 58, 58, 78, 101, 119, 69, 110, 117, 109, 101, 114, 97,
       116, 111, 114 >>

\* STAT_PROPERTIES: the name bytes and the type of every stat.
StatKeys == {"level", "skillpoints", "xpgained", "required_xp", "current_xp"}

LEVEL_BYTES ==    \* b'Level_15_CF9C856C488C1A8E5FDBD0867E1E4B84'
    << 76, 101, 118, 101, 108, 95, 49, 53, 95, 67, 70, 57, 67, 56, 53, 54,
       67, 52, 56, 56, 67, 49, 65, 56, 69, 53, 70, 68, 66, 68, 48, 56, 54,
       55, 69, 49, 69, 52, 66, 56, 52 >>

SKILLPOINTS_BYTES ==    \* b'SkillsPoint_14_28A5347D4A1C7FE53D47AF8C61AF3F72'
    << 83, 107, 105, 108, 108, 115, 80, 111, 105, 110, 116, 95, 49, 52, 95,
       50, 56, 65, 53, 51, 52, 55, 68, 52, 65, 49, 67, 55, 70, 69, 53, 51,
       68, 52, 55, 65, 70, 56, 67, 54, 49, 65, 70, 51, 70, 55, 50 >>

XPGAINED_BYTES ==    \* b'XPGained_9_DBB2D8FA4938305F1BD8C1AEE1155512'
    << 88, 80, 71, 97, 105, 110, 101, 100, 95, 57, 95, 68, 66, 66, 50, 68,
       56, 70, 65, 52, 57, 51, 56, 51, 48, 53, 70, 49, 66, 68, 56, 67, 49,
       65, 69, 69, 49, 49, 53, 53, 53, 49, 50 >>

REQUIRED_XP_BYTES ==    \* b'Required_3_9EC34DB94655BD224201AA9AD482C5BB'
    << 82, 101, 113, 117, 105, 114, 101, 100, 95, 51, 95, 57, 69, 67, 51,
       52, 68, 66, 57, 52, 54, 53, 53, 66, 68, 50, 50, 52, 50, 48, 49, 65,
       65, 57, 65, 68, 52, 56, 50, 67, 53, 66, 66 >>

CURRENT_XP_BYTES ==    \* b'Current_4_EBCD0EF2496AEF7E3ACCBC9AD9D49E03'
    << 67, 117, 114, 114, 101, 110, 116, 95, 52, 95, 69, 66, 67, 68, 48,
       69, 70, 50, 52, 57, 54, 65, 69, 70, 55, 69, 51, 65, 67, 67, 66, 67,
       57, 65, 68, 57, 68, 52, 57, 69, 48, 51 >>

STAT_PROPERTIES ==
    [key \in StatKeys |->
        IF key = "level" THEN [bytes |-> LEVEL_BYTES, type |-> "int"]
        ELSE IF key = "skillpoints" THEN [bytes |-> SKILLPOINTS_BYTES, type |-> "int"]
        ELSE IF key = "xpgained" THEN [bytes |-> XPGAINED_BYTES, type |-> "int"]
        ELSE IF key = "required_xp" THEN [bytes |-> REQUIRED_XP_BYTES, type |-> "float"]
        ELSE [bytes |-> CURRENT_XP_BYTES, type |-> "float"]]

\* config.PROFESSIONS: the profession numbers.
PROFESSIONS == 0..16

\* int(text) for the text after the enum prefix: digits only, -1 otherwise
\* (the ValueError is caught).
EnumNumber(text) ==
    IF text # << >> /\ \A k \in 1..Len(text) : IsDigit(text[k])
    THEN DigitsValue(text) ELSE -1

\* edit_stats.find_players, lines 93-113: the SteamID properties whose value
\* has a length within (0, 200), each the start of a player's struct.  (The
\* name and the Steam id read here are only shown.)
StructStarts(d) ==
    {idx \in Occurrences(d, STEAMID_PROP) :
        \E type_end \in {idx + Len(STEAMID_PROP) + 1 + 4
                           + I32At(d, idx + Len(STEAMID_PROP) + 1)} :
            /\ 0 < I32At(d, type_end + 8 + 1)
            /\ I32At(d, type_end + 8 + 1) < 200}

\* Lines 131-149: the stat key of the struct between struct_start and
\* struct_end; the value of a float stat is kept as its 4 bytes.
FindStat(d, struct_start, struct_end, key) ==
    LET prop == STAT_PROPERTIES[key]
        pidx == Find(PySlice(d, struct_start, struct_end), prop.bytes, 0)
        name_end == struct_start + pidx + Len(prop.bytes) + 1
        val_off == name_end + 4 + I32At(d, name_end) + 8 + 1
    IN  IF pidx = -1 THEN None
        ELSE [value |-> IF prop.type = "int" THEN I32At(d, val_off)
                        ELSE SubSeq(d, val_off + 1, val_off + 4),
              offset |-> val_off,
              type |-> prop.type]

\* Lines 156-186: the StartingPerk property found at abs_off.
ProfessionAt(d, abs_off) ==
    LET name_end == abs_off + Len(STARTING_PERK_PROP) + 1
        size_off == name_end + 4 + I32At(d, name_end)
        enum_type_off == size_off + 8
        val_len_off == enum_type_off + 4 + I32At(d, enum_type_off) + 1
        val_len == I32At(d, val_len_off)
        val_str == PySlice(d, val_len_off + 4, val_len_off + 4 + val_len - 1)
    IN  [enum_num |-> IF Find(val_str, ENUM_PREFIX, 0) # -1
                      THEN EnumNumber(From(val_str, Len(ENUM_PREFIX))) ELSE -1,
         enum_str |-> val_str,
         val_len_off |-> val_len_off,
         val_str_off |-> val_len_off + 4,
         val_len |-> val_len,
         size_off |-> size_off,
         size_val |-> U64At(d, size_off)]

\* Lines 152-155.
FindProfession(d, struct_start, struct_end) ==
    LET perk_idx == Find(PySlice(d, struct_start, struct_end), STARTING_PERK_PROP, 0)
    IN  IF perk_idx = -1 THEN None ELSE ProfessionAt(d, struct_start + perk_idx)

\* Lines 119-188: the players in the order of their structs, each struct
\* ending where the next one starts.  (find_players of src/edit_stats.py is
\* the same without the profession.)
find_players(d) ==
    LET starts == Ascending(StructStarts(d))
    IN  [i \in 1..Len(starts) |->
            LET struct_end == IF i < Len(starts) THEN starts[i + 1] ELSE Len(d)
            IN  [struct_start |-> starts[i],
                 struct_end |-> struct_end,
                 stats |-> [key \in StatKeys |->
                               FindStat(d, starts[i], struct_end, key)],
                 profession |-> FindProfession(d, starts[i], struct_end)]]

\* utils.scan_enum_properties, lines 217-252, for the occurrence at loc.
\* (The context, like the player edit_profession.rescan_entries adds, is
\* only shown.)
EnumEntryAt(d, loc) ==
    LET end == Find(d, << 0 >>, loc)
        enum_str == PySlice(d, loc, end)
    IN  [offset |-> loc,
         enum_str |-> enum_str,
         enum_num |-> EnumNumber(From(enum_str, Len(ENUM_PREFIX))),
         length_prefix_offset |-> loc - 4,
         length_prefix_ok |-> I32At(d, loc - 4) = Len(enum_str) + 1,
         end |-> end + 1]

\* utils.scan_enum_properties(data), which edit_profession.rescan_entries
\* returns with the players added.
scan_enum_properties(d) ==
    LET locations == find_all_bytes(d, ENUM_PREFIX)
    IN  [i \in 1..Len(locations) |-> EnumEntryAt(d, locations[i])]

\* The numbers the user types are carried as their text: digits after an
\* optional minus sign, without leading zeros, for the integers int(input())
\* accepts; one of the texts below for the floats.
I32_LIMIT == << 50, 49, 52, 55, 52, 56, 51, 54, 52, 55 >>       \* '2147483647'

I32_LIMIT_NEG == << 50, 49, 52, 55, 52, 56, 51, 54, 52, 56 >>   \* '2147483648'

\* a <= b for two texts of digits of the same length.
RECURSIVE DigitsLeq(_, _)
DigitsLeq(a, b) ==
    IF a = << >> THEN TRUE
    ELSE IF Head(a) # Head(b) THEN Head(a) < Head(b)
    ELSE DigitsLeq(Tail(a), Tail(b))

Negative(text) == text[1] = 45

Magnitude(text) == IF Negative(text) THEN Tail(text) ELSE text

\* -2^31 <= int(text) <= 2^31 - 1
FitsI32(text) ==
    \/ Len(Magnitude(text)) < Len(I32_LIMIT)
    \/ /\ Len(Magnitude(text)) = Len(I32_LIMIT)
       /\ DigitsLeq(Magnitude(text),
                    IF Negative(text) THEN I32_LIMIT_NEG ELSE I32_LIMIT)

\* struct.pack('<i', int(text)): struct.error outside the 32-bit range.
PackIntText(text) ==
    IF ~FitsI32(text) THEN [err |-> "struct.error", bytes |-> << >>]
    ELSE IF Negative(text) /\ Magnitude(text) = I32_LIMIT_NEG
    THEN [err |-> "none", bytes |-> PackI32(INT_MIN)]
    ELSE [err |-> "none",
          bytes |-> PackI32(IF Negative(text) THEN -DigitsValue(Magnitude(text))
                            ELSE DigitsValue(text))]

FLOAT_ZERO == << 48, 46, 48 >>              \* '0.0'

FLOAT_SMALL == << 49, 46, 53 >>             \* '1.5'

FLOAT_HUNDRED == << 49, 48, 48 >>           \* '100'

FLOAT_INF == << 105, 110, 102 >>            \* 'inf'

FLOAT_NAN == << 110, 97, 110 >>             \* 'nan'

FLOAT_HUGE == << 49, 101, 51, 57 >>         \* '1e39'

\* struct.pack('<f', float(text)) for these texts: OverflowError for a
\* finite number beyond the single-precision range.
PackFloatText(text) ==
    IF text = FLOAT_HUGE THEN [err |-> "OverflowError", bytes |-> << >>]
    ELSE [err |-> "none",
          bytes |-> IF text = FLOAT_ZERO THEN << 0, 0, 0, 0 >>
                    ELSE IF text = FLOAT_SMALL THEN << 0, 0, 192, 63 >>
                    ELSE IF text = FLOAT_HUNDRED THEN << 0, 0, 200, 66 >>
                    ELSE IF text = FLOAT_INF THEN << 0, 0, 128, 127 >>
                    ELSE << 0, 0, 192, 127 >>]

\* The files of a session: the save file, the backup files next to it (by
\* the second of their timestamped name; None where there is none) and
\* main's flag backup_created[0].
Files(save, backups, created) ==
    [save |-> save, backups |-> backups, created |-> created]

\* shutil.copy2(save_file, f'{save_file}.backup_{timestamp}') at second t.
CopyToBackup(w, t) == [w EXCEPT !.backups[t] = w.save]

\* utils.write_save(save_file, data)
write_save(w, d) == [w EXCEPT !.save = d]

\* A backup at every call.
BackupEveryTime(w, t) == [CopyToBackup(w, t) EXCEPT !.created = TRUE]

\* src/src/edit_stats.py, _ensure_backup(save_file, backup_created)
ensure_backup(w, t) ==
    IF ~w.created THEN [CopyToBackup(w, t) EXCEPT !.created = TRUE] ELSE w

\* data[:offset] + new_bytes + data[offset + n:]: n bytes at offset replaced.
Replace(d, offset, n, new_bytes) ==
    UpTo(d, offset) \o new_bytes \o From(d, offset + n)

\* write_save(save_file, data); return data
Written(w, d) == [err |-> "none", data |-> d, files |-> write_save(w, d)]

\* What both versions of apply_stat_change do after the backup, with w the
\* files the backup left: the value, packed by the stat's type, replaces the
\* 4 bytes at the stat's offset, and the result is written.
StatSplice(d, stat, w, packed) ==
    IF packed.err # "none" THEN [err |-> packed.err, data |-> d, files |-> w]
    ELSE Written(w, Replace(d, stat.offset, 4, packed.bytes))

\* src/src/edit_stats.py, apply_stat_change(data, stat, new_value, save_file,
\* backup_created) at second t.  err is the exception raised ("none" on
\* return), data the bytes returned, files the files it leaves.
apply_stat_change(d, stat, new_value, w, t) ==
    StatSplice(d, stat, ensure_backup(w, t),
               IF stat.type = "int" THEN PackIntText(new_value)
               ELSE PackFloatText(new_value))

\* src/edit_stats.py, apply_stat_change: the backup is made in the function
\* itself.
apply_stat_change_v1(d, stat, new_value, w, t) ==
    StatSplice(d, stat,
               IF ~w.created THEN [CopyToBackup(w, t) EXCEPT !.created = TRUE]
               ELSE w,
               IF stat.type = "int" THEN PackIntText(new_value)
               ELSE PackFloatText(new_value))

\* f'Enum_Professions::NewEnumerator{n}'
EnumStr(n) == ENUM_PREFIX \o Str(n)

\* Lines 284-289: the entries of the array from offset pos of d on, count of
\* them left: whether one of them is target, and where the last one ends.
RECURSIVE ScanUnlocked(_, _, _, _)
ScanUnlocked(d, pos, count, target) ==
    IF count <= 0 THEN [found |-> FALSE, pos |-> pos]
    ELSE IF PySlice(d, pos + 4, pos + 4 + I32At(d, pos) - 1) = target
    THEN [found |-> TRUE, pos |-> pos]
    ELSE ScanUnlocked(d, pos + 4 + I32At(d, pos), count - 1, target)

\* Lines 293-306: the new entry inserted where the scan ended, the count and
\* the property size, as read before the insertion, updated.
InsertUnlocked(d, insert_abs, count_abs, prop_size_abs, new_entry) ==
    [data |-> Replace(Replace(Replace(d, insert_abs, 0, new_entry),
                              count_abs, 4, PackI32(I32At(d, count_abs) + 1)),
                      prop_size_abs, 8,
                      PackI64(U64At(d, prop_size_abs) + Len(new_entry))),
     added |-> TRUE]

\* Lines 282-306, with scan the result of the search for the profession.
AddUnlockedAfterScan(d, prop_size_abs, count_abs, enum_num, scan) ==
    IF scan.found THEN [data |-> d, added |-> FALSE]
    ELSE InsertUnlocked(d, scan.pos, count_abs, prop_size_abs,
                        FStringBytes(EnumStr(enum_num), "a"))

\* Lines 275-280: the entry count is at count_abs, past the inner type and
\* its separator; the entries follow it.
AddUnlockedFrom(d, prop_size_abs, count_abs, enum_num) ==
    AddUnlockedAfterScan(d, prop_size_abs, count_abs, enum_num,
                         ScanUnlocked(d, count_abs + 4, I32At(d, count_abs),
                                      EnumStr(enum_num)))

\* Lines 271-273: the property size is at prop_size_abs.
AddUnlockedAt(d, prop_size_abs, enum_num) ==
    AddUnlockedFrom(d, prop_size_abs,
                    prop_size_abs + 8 + 4 + I32At(d, prop_size_abs + 8) + 1,
                    enum_num)

\* Lines 263-269: the property found at abs_base; its size field follows
\* the name, its null and the type string.
AddUnlockedIn(d, abs_base, enum_num) ==
    AddUnlockedAt(d, abs_base + Len(UNLOCKED_PROF_PROP) + 1 + 4
                       + I32At(d, abs_base + Len(UNLOCKED_PROF_PROP) + 1),
                  enum_num)

\* src/src/edit_stats.py, _add_to_unlocked_professions(data, player, enum_num)
add_to_unlocked_professions(d, player, enum_num) ==
    LET prop_idx == Find(PySlice(d, player.struct_start, player.struct_end),
                         UNLOCKED_PROF_PROP, 0)
    IN  IF prop_idx = -1 THEN [data |-> d, added |-> FALSE]
        ELSE AddUnlockedIn(d, player.struct_start + prop_idx, enum_num)

\* Lines 361-398 of apply_profession_change: the value of StartingPerk that
\* prof locates is replaced in d by the string of new_num, with the length
\* prefix and the size of the property when the length changes, and d is
\* written.
ReplaceStartingPerk(d, prof, new_num, w) ==
    IF Len(prof.enum_str) + 1 = Len(EnumStr(new_num)) + 1
    THEN Written(w, Replace(d, prof.val_str_off, Len(prof.enum_str) + 1,
                            EnumStr(new_num) \o << 0 >>))
    ELSE Written(w,
             Replace(Replace(d, prof.val_len_off, 4 + Len(prof.enum_str) + 1,
                             FStringBytes(EnumStr(new_num), "a")),
                     prof.size_off, 8,
                     PackI64(prof.size_val + (Len(EnumStr(new_num)) + 1)
                               - prof.val_len)))

\* Lines 330-359: after an insertion the struct ends entry_bytes later and
\* the profession is located again (kept as it was when StartingPerk is not
\* found), with the number and the string it had.
RelocatedProfession(d, player, prof) ==
    LET perk_idx == Find(PySlice(d, player.struct_start,
                                 player.struct_end + Len(EnumStr(prof.enum_num)) + 1 + 4),
                         STARTING_PERK_PROP, 0)
    IN  IF perk_idx = -1 THEN prof
        ELSE [ProfessionAt(d, player.struct_start + perk_idx)
                 EXCEPT !.enum_num = prof.enum_num, !.enum_str = prof.enum_str]

\* Lines 325-359, with r the result of _add_to_unlocked_professions.
ChangeAfterUnlock(r, player, new_num, w) ==
    ReplaceStartingPerk(r.data,
                        IF r.added
                        THEN RelocatedProfession(r.data, player, player.profession)
                        ELSE player.profession,
                        new_num, w)

\* src/src/edit_stats.py, apply_profession_change(data, player, new_num,
\* save_file, backup_created) at second t.
apply_profession_change(d, player, new_num, w, t) ==
    ChangeAfterUnlock(add_to_unlocked_professions(d, player, player.profession.enum_num),
                      player, new_num, ensure_backup(w, t))

\* Lines 102-132 of edit_profession.apply_change, with w the files after the
\* backup at second t: the replacement of the string, with its length prefix
\* when the length changes; on a prefix that does not match the save file is
\* restored from the backup and read again.
ChangeEnumEntry(d, entry, new_num, w, t) ==
    IF Len(entry.enum_str) + 1 = Len(EnumStr(new_num)) + 1
    THEN Written(w, UpTo(d, entry.offset) \o EnumStr(new_num) \o << 0 >>
                      \o From(d, entry.end))
    ELSE IF entry.length_prefix_ok
    THEN Written(w, Replace(d, entry.length_prefix_offset,
                            4 + Len(entry.enum_str) + 1,
                            FStringBytes(EnumStr(new_num), "a")))
    ELSE [err |-> "none", data |-> w.backups[t],
          files |-> [w EXCEPT !.save = w.backups[t]]]

\* edit_profession.apply_change(data, entry, new_num, save_file) at second t.
apply_change(d, entry, new_num, w, t) ==
    ChangeEnumEntry(d, entry, new_num, CopyToBackup(w, t), t)


\* ------------------------------------------------------------------------
\* The save files of the editor runs: one player struct in the layout the
\* editors read, the properties edit_stats looks for among its properties.
\* ------------------------------------------------------------------------

INT_PROPERTY ==    \* b'IntProperty'
    << 73, 110, 116, 80, 114, 111, 112, 101, 114, 116, 121 >>

FLOAT_PROPERTY ==    \* b'FloatProperty'
    << 70, 108, 111, 97, 116, 80, 114, 111, 112, 101, 114, 116, 121 >>

STR_PROPERTY ==    \* b'StrProperty'
    << 83, 116, 114, 80, 114, 111, 112, 101, 114, 116, 121 >>

BYTE_PROPERTY ==    \* b'ByteProperty'
    << 66, 121, 116, 101, 80, 114, 111, 112, 101, 114, 116, 121 >>

ARRAY_PROPERTY ==    \* b'ArrayProperty'
    << 65, 114, 114, 97, 121, 80, 114, 111, 112, 101, 114, 116, 121 >>

ENUM_TYPE ==    \* b'Enum_Professions'
    << 69, 110, 117, 109, 95, 80, 114, 111, 102, 101, 115, 115, 105,
       111, 110, 115 >>

STEAM_ID_VALUE ==    \* b'76561198000000001_+_|0001'
    << 55, 54, 53, 54, 49, 49, 57, 56, 48, 48, 48, 48, 48, 48, 48, 48,
       49, 95, 43, 95, 124, 48, 48, 48, 49 >>

\* The name and the type of a property, each an FString, and its size field.
PropertyHead(name, type, size) ==
    FStringBytes(name, "a") \o FStringBytes(type, "a") \o PackI64(size)

\* size(8) + guid(1) + the 4 bytes of the value
IntProperty(name, value) ==
    PropertyHead(name, INT_PROPERTY, 4) \o << 0 >> \o PackI32(value)

FloatProperty(name, value_bytes) ==
    PropertyHead(name, FLOAT_PROPERTY, 4) \o << 0 >> \o value_bytes

StrProperty(name, text) ==
    PropertyHead(name, STR_PROPERTY, Len(text) + 5) \o << 0 >>
        \o FStringBytes(text, "a")

\* size(8) + enum type (FString) + separator(1) + value (FString); stored_len
\* is the length prefix of the value as the file holds it.
ByteProperty(name, enum_num, stored_len) ==
    PropertyHead(name, BYTE_PROPERTY, Len(EnumStr(enum_num)) + 5)
        \o FStringBytes(ENUM_TYPE, "a") \o << 0 >>
        \o PackI32(stored_len) \o EnumStr(enum_num) \o << 0 >>

RECURSIVE EnumEntries(_)
EnumEntries(nums) ==
    IF nums = << >> THEN << >>
    ELSE FStringBytes(EnumStr(Head(nums)), "a") \o EnumEntries(Tail(nums))

\* size(8) + inner type (FString) + separator(1) + count + the entries
ArrayProperty(name, nums) ==
    PropertyHead(name, ARRAY_PROPERTY, 4 + Len(EnumEntries(nums)))
        \o FStringBytes(BYTE_PROPERTY, "a") \o << 0 >>
        \o PackI32(Len(nums)) \o EnumEntries(nums)

\* The save a description s stands for.
SaveBytes(s) ==
    << 71, 86, 65, 83 >>    \* b'GVAS'
    \o StrProperty(STEAMID_PROP, STEAM_ID_VALUE)
    \o IntProperty(LEVEL_BYTES, s.level)
    \o (IF s.array = "first"
        THEN ArrayProperty(UNLOCKED_PROF_PROP, s.unlocked) ELSE << >>)
    \o (IF s.profession # -1
        THEN ByteProperty(STARTING_PERK_PROP, s.profession,
                          IF s.prefix_ok THEN Len(EnumStr(s.profession)) + 1
                          ELSE 0)
        ELSE << >>)
    \o (IF s.array = "last"
        THEN ArrayProperty(UNLOCKED_PROF_PROP, s.unlocked) ELSE << >>)
    \o FloatProperty(CURRENT_XP_BYTES, PackFloatText(FLOAT_SMALL).bytes)
    \o IntProperty(XPGAINED_BYTES, 250)


\* What a session is run on: the program and the description of the save.
SaveOf(level, profession, unlocked, array, prefix_ok) ==
    [level |-> level, profession |-> profession, unlocked |-> unlocked,
     array |-> array, prefix_ok |-> prefix_ok]

StatsSaves ==
    { SaveOf(3, 1, << 2 >>, "last", TRUE),
      SaveOf(3, 10, << >>, "first", TRUE),
      SaveOf(40, -1, << >>, "none", TRUE) }

ProfessionSaves ==
    { SaveOf(3, 1, << 2 >>, "last", TRUE),
      SaveOf(3, 1, << 2 >>, "last", FALSE) }

EditRuns ==
    [prog : {"edit_stats", "edit_stats_v1"}, save : StatsSaves]
      \cup [prog : {"edit_profession"}, save : ProfessionSaves]

\* What the user types at the prompts.
IntTexts == { << 55 >>, << 45, 49 >>, I32_LIMIT, I32_LIMIT_NEG }

FloatTexts == { FLOAT_ZERO, FLOAT_INF, FLOAT_HUGE }

SetAllTexts == { << >>, << 57 >> }

ProfessionChoices == {2, 10}

MaxEdits == 3       \* edits confirmed in one session

MaxClock == 1       \* seconds the clock advances during a session

\* datetime.now() at a call: the second of the last reading or a later one.
Clock == now..MaxClock

\* edit_stats reads the clock only to name the backup it makes.
StatsClock == IF backup_created THEN {now} ELSE Clock

InitEdit ==
    \E r \in EditRuns :
        /\ prog = r.prog
        /\ args = NoArgs
        /\ HAS_PYCRYPTODOME = TRUE
        /\ cfg = [kind |-> "save", save |-> r.save]
        /\ pak = << >>
        /\ pc = "edit_loop"
        /\ status = "running"
        /\ exc = "none"
        /\ fpos = 0
        /\ io_log = << >>
        /\ pak_info = NoInfo
        /\ mount_point = << >>
        /\ num_entries = 0
        /\ encoded_data = << >>
        /\ dir_entries = << >>
        /\ dir_stream = << >>
        /\ dpos = 0
        /\ dirs_left = 0
        /\ files_left = 0
        /\ dir_name = << >>
        /\ warned = FALSE
        /\ matches = << >>
        /\ mi = 1
        /\ extracted = 0
        /\ outcomes = << >>
        /\ out_files = << >>
        /\ uexp_entry = 0
        /\ uasset_entry = 0
        /\ byte_offsets = << >>
        /\ decode_results = << >>
        /\ NoCalls
        /\ NoUtils
        /\ save_file = SaveBytes(r.save)
        /\ save_data = SaveBytes(r.save)        \* data = load_save(save_file)
        /\ backup_files = [t \in 0..MaxClock |-> None]
        /\ backup_created = FALSE
        /\ now = 0
        /\ edits = 0
        /\ last_edit = NoEdit

notEditVars == << inputVars, fileVars, pak_info, indexVars, dir_entries,
                  dirVars, mainVars, codecVars, callVars, utilVars >>

\* A call of one of the apply functions, made at second t with result r,
\* ends: main keeps the data returned and scans it again, or the exception
\* raised ends main.
EditEnds(op, offset, r, t) ==
    /\ save_file' = r.files.save
    /\ backup_files' = r.files.backups
    /\ backup_created' = r.files.created
    /\ save_data' = r.data
    /\ now' = t
    /\ edits' = edits + 1
    /\ last_edit' = [op |-> op, offset |-> offset, err |-> r.err]
    /\ IF r.err = "none" THEN Continue("edit_loop") ELSE Crash(r.err)
    /\ UNCHANGED notEditVars

\* The files as the variables hold them.
TheFiles == Files(save_file, backup_files, backup_created)

\* apply_stat_change of the program that runs.
StatChange(d, stat, new_value, w, t) ==
    IF prog = "edit_stats" THEN apply_stat_change(d, stat, new_value, w, t)
    ELSE apply_stat_change_v1(d, stat, new_value, w, t)

\* edit_stats.main, choices 1 to 5: a stat of a player is given a new value.
StatEdit ==
    /\ prog \in {"edit_stats", "edit_stats_v1"}
    /\ pc = "edit_loop"
    /\ edits < MaxEdits
    /\ \E players \in {find_players(save_data)} :
       \E player_idx \in 1..Len(players), stat_key \in StatKeys, t \in StatsClock :
          /\ players[player_idx].stats[stat_key] # None
          /\ \E new_val \in (IF STAT_PROPERTIES[stat_key].type = "int"
                             THEN IntTexts ELSE FloatTexts) :
             \E r \in {StatChange(save_data, players[player_idx].stats[stat_key],
                                  new_val, TheFiles, t)} :
                EditEnds("stat", players[player_idx].stats[stat_key].offset, r, t)

\* The changes of choice 6: the stats a text was typed for and the player has.
Changes(player, texts) ==
    SelectSeq(<< [key |-> "level", val |-> texts[1]],
                 [key |-> "skillpoints", val |-> texts[2]],
                 [key |-> "xpgained", val |-> texts[3]] >>,
              LAMBDA c : c.val # << >> /\ player.stats[c.key] # None)

\* for key, val in changes: data = apply_stat_change(...), until one raises.
RECURSIVE ApplyChanges(_, _, _, _, _)
ApplyChanges(d, player, changes, w, t) ==
    IF changes = << >> THEN [err |-> "none", data |-> d, files |-> w]
    ELSE LET r == StatChange(d, player.stats[Head(changes).key],
                             Head(changes).val, w, t)
         IN  IF r.err # "none" THEN r
             ELSE ApplyChanges(r.data, player, Tail(changes), r.files, t)

\* edit_stats.main, choice 6: level, skill points and XP gained at once.
StatSetAll ==
    /\ prog \in {"edit_stats", "edit_stats_v1"}
    /\ pc = "edit_loop"
    /\ edits < MaxEdits
    /\ \E players \in {find_players(save_data)} :
       \E player_idx \in 1..Len(players), t \in StatsClock,
          new_level \in SetAllTexts, new_sp \in SetAllTexts, new_xp \in SetAllTexts :
          \E changes \in {Changes(players[player_idx], << new_level, new_sp, new_xp >>)} :
             /\ changes # << >>
             /\ \E r \in {ApplyChanges(save_data, players[player_idx], changes,
                                       TheFiles, t)} :
                   EditEnds("set_all", 0, r, t)

\* edit_stats.main of src/src, choice 7: the profession of a player.
StatProfessionEdit ==
    /\ prog = "edit_stats"
    /\ pc = "edit_loop"
    /\ edits < MaxEdits
    /\ \E players \in {find_players(save_data)} :
       \E player_idx \in 1..Len(players), t \in StatsClock,
          new_num \in ProfessionChoices :
          /\ players[player_idx].profession # None
          /\ new_num # players[player_idx].profession.enum_num
          /\ \E r \in {apply_profession_change(save_data, players[player_idx],
                                               new_num, TheFiles, t)} :
                EditEnds("profession", 0, r, t)

\* edit_profession.main: an entry is given a new profession.
ProfessionEdit ==
    /\ prog = "edit_profession"
    /\ pc = "edit_loop"
    /\ edits < MaxEdits
    /\ \E entries \in {scan_enum_properties(save_data)} :
       \E entry_idx \in 1..Len(entries), t \in Clock,
          new_num \in ProfessionChoices :
          /\ new_num # entries[entry_idx].enum_num
          /\ \E r \in {apply_change(save_data, entries[entry_idx], new_num,
                                    TheFiles, t)} :
                EditEnds("change", entries[entry_idx].offset, r, t)

\* 'q' at the prompt of either editor.
EditQuit ==
    /\ prog \in {"edit_stats", "edit_stats_v1", "edit_profession"}
    /\ pc = "edit_loop"
    /\ Finish("returned")
    /\ UNCHANGED << notEditVars, editVars, utilVars >>

NextEdit ==
    \/ StatEdit
    \/ StatSetAll
    \/ StatProfessionEdit
    \/ ProfessionEdit
    \/ EditQuit

SpecEdit == InitEdit /\ [][NextEdit]_vars

\* ------------------------------------------------------------------------
\* Properties of the extraction paths and of the footer reader
\* ------------------------------------------------------------------------

\* The maximum on-disk size the path that handled an outcome is configured
\* with.
MaxSizeOf(o) == IF o.who = "extract" THEN PAK_READER_MAX_SIZE ELSE ENUM_MAX_SIZE

\* The outcome of an entry that decoded and fails the validation.
Insane(o) == o.dec.err = "none" /\ ~Sane(o.dec.entry, Len(pak), MaxSizeOf(o))

\* C1: on every extraction path, an entry that decodes to an offset outside
\* (0, containerSize) or to a size outside (0, maximum) is given up as
\* corrupt (skipped by pak_reader, exit by extract_enums) and no seek or read
\* on the container is made for it.
C1_NoReadForCorruptEntry ==
    \A k \in 1..Len(outcomes) :
        Insane(outcomes[k]) =>
            /\ outcomes[k].io = << >>
            /\ outcomes[k].kind \in {"SKIP", "EXIT"}

\* The footer has been read and its magic is not the expected one.
BadMagicRead == pc # "start" /\ ~cfg.tiny /\ pak_info.magic # ExpectedMagic

\* C2: a footer whose magic differs from the expected constant makes the
\* open fail with FormatError, and the failure comes before any seek to or
\* read at the footer's index offset.
C2_BadMagicFailsBeforeIndex ==
    BadMagicRead =>
        /\ status = "crashed" /\ exc = "FormatError"
        /\ \A k \in 1..Len(io_log) : io_log[k].at # pak_info.index_offset

\* C3: an entry whose compression method is not 0 is never returned as the
\* raw bytes extract_file reads (the content of a stored file): its
\* extraction returns what the block codec decompressed, or fails.
C3_CompressedNeverReturnedRaw ==
    \A k \in 1..Len(outcomes) :
        (outcomes[k].dec.err = "none" /\ outcomes[k].dec.entry.compression # 0)
            => outcomes[k].via # "extract_file"

\* C4: for an entry of method 0, extract_file returns exactly size bytes,
\* those at offset..offset+size-1 of the container, decrypted as a whole when
\* the entry is flagged encrypted.
C4_StoredContentIsExact ==
    \A k \in 1..Len(outcomes) :
        LET o == outcomes[k]
        IN  (o.via = "extract_file" /\ o.dec.entry.compression = 0) =>
                LET raw == Slice(pak, o.dec.entry.offset,
                                 o.dec.entry.offset + o.dec.entry.size)
                IN  /\ Len(o.data) = o.dec.entry.size
                    /\ o.data = IF o.dec.entry.encrypted
                                THEN aes_decrypt_ecb(raw) ELSE raw

\* ------------------------------------------------------------------------
\* Properties of the directory tree decoder
\* ------------------------------------------------------------------------

\* The listing of a directory tree: one entry per file, in stream order.
RECURSIVE ListingOf(_)
ListingOf(tree) ==
    IF Len(tree) = 0 THEN << >>
    ELSE [j \in 1..Len(Head(tree).files) |->
             PakDirectoryEntry(Head(tree).name \o Head(tree).files[j].name,
                               Head(tree).files[j].encoded_offset)]
           \o ListingOf(Tail(tree))

\* The number of file records of container c that lie wholly before its
\* damage: before the cut, or before the overwritten length.
FilesBeforeDamage(c) ==
    LET limit == IF c.damage.kind = "cut" THEN c.damage.keep ELSE c.damage.at
    IN  Cardinality({ij \in FilePositions(c.tree) :
                        FileEnd(c.tree, ij[1], ij[2]) <= limit})

\* The directory block of the container is damaged and was handed to the
\* decoder.
DirDamaged == cfg.kind = "dir" /\ cfg.damage.kind # "none" /\ dir_stream # << >>

\* C8: when a structural read fails in the middle of the directory block,
\* read_pak_index raises nothing and returns the entries decoded before the
\* failure, in stream order, with the mount point, the entry count and the
\* encoded-entries table.
C8_PartialListingReturned ==
    DirDamaged =>
        /\ status # "crashed"
        /\ pc = "index_return" =>
              /\ warned
              /\ dir_entries = SubSeq(ListingOf(cfg.tree), 1, FilesBeforeDamage(cfg))
              /\ mount_point = cfg.mount
              /\ num_entries = cfg.num_entries
              /\ encoded_data = TableBytes(cfg.records, 0)

\* C8 witness: the decoder stopped in a damaged block after decoding files.
C8_Witness ==
    /\ DirDamaged /\ pc = "index_return" /\ warned
    /\ Len(dir_entries) >= 2
    /\ Len(dir_entries) < SumFiles(cfg.tree)

\* The values read_pak_index returns for the undamaged, unencrypted
\* directory containers.
CleanReturns ==
    {<< c.mount, c.num_entries, TableBytes(c.records, 0), ListingOf(c.tree) >> :
        c \in {DirContainer(sh, NoDamage, FALSE) : sh \in Shapes}}

\* C9: a listing that stopped early can be told from a complete one by the
\* returned value alone: no decode that stopped early returns the value a
\* complete decode returns.
C9_PartialListingIsMarked ==
    (pc = "index_return" /\ warned) => Returned \notin CleanReturns

\* C10: for a well-formed directory block the decoder emits one entry per
\* file record, in stream order, each with the directory name followed by
\* the file name as its path and the stored 32-bit value as its offset; their
\* number is the sum of the file counts.
C10_ListingOfWellFormedBlock ==
    (pc = "index_return" /\ cfg.damage.kind = "none" /\ dir_stream # << >>) =>
        /\ dir_entries = ListingOf(cfg.tree)
        /\ Len(dir_entries) = SumFiles(cfg.tree)
        /\ ~warned

\* C10 witness: a complete listing of two directories, the second with two
\* files.
C10_Witness ==
    /\ pc = "index_return" /\ cfg.damage.kind = "none"
    /\ Len(cfg.tree) = 2 /\ Len(cfg.tree[2].files) = 2
    /\ Len(dir_entries) >= 3

\* ------------------------------------------------------------------------
\* Properties of decode_entry
\* ------------------------------------------------------------------------

\* The entries decode_entry has returned so far.
ReturnedEntries ==
    {decode_results[k].entry :
        k \in {i \in 1..Len(decode_results) : decode_results[i].err = "none"}}

\* The number of blocks a returned entry tells of: its block count, none
\* when the entry carries no block information.
BlocksOf(entry) == IF "block_count" \in DOMAIN entry THEN entry.block_count ELSE 0

\* C5: every entry decode_entry returns with compression method 0, in
\* either form and at any offset, has its on-disk size equal to its
\* uncompressed size and tells of no block.
C5_StoredEntryHasOneSizeAndNoBlocks ==
    \A entry \in ReturnedEntries :
        entry.compression = 0 =>
            /\ entry.size = entry.uncompressed_size
            /\ BlocksOf(entry) = 0

\* The per-block uncompressed sizes of n blocks of chunk size chunk (every
\* block a whole chunk, the last one what is left) sum to total.
BlocksSumTo(n, chunk, total) ==
    /\ n > 0 /\ chunk > 0 /\ total > 0
    /\ n = ((total - 1) \div chunk) + 1

\* C6: every entry decode_entry returns with a non-zero compression method
\* carries a non-empty block list, whose per-block uncompressed sizes sum to
\* the entry's uncompressed size.
C6_CompressedEntryHasBlocks ==
    \A entry \in ReturnedEntries :
        entry.compression # 0 =>
            /\ "block_count" \in DOMAIN entry
            /\ BlocksSumTo(entry.block_count, entry.block_size,
                           entry.uncompressed_size)

\* The logical view of a returned entry: body offset, on-disk size,
\* uncompressed size, compression method, encrypted flag, blocks and chunk
\* size (the form tag and the bytes consumed are not part of it).
ViewOf(entry) ==
    [offset |-> entry.offset, size |-> entry.size,
     uncompressed_size |-> entry.uncompressed_size,
     compression |-> entry.compression, encrypted |-> entry.encrypted,
     blocks |-> BlocksOf(entry), block_size |-> entry.block_size]

\* Both records of a table holding a full and a compact record of one file
\* have been decoded.
PairDecoded ==
    /\ cfg.kind = "codec" /\ cfg.form = "pair"
    /\ Len(decode_results) = 2
    /\ decode_results[1].err = "none" /\ decode_results[2].err = "none"

\* C7: a full-form record and a compact record of the same logical file
\* decode to the same value.
C7_BothFormsDecodeAlike ==
    PairDecoded => ViewOf(decode_results[1].entry) = ViewOf(decode_results[2].entry)

\* The compact record of a chained table has been decoded, and both of its
\* records have.
ChainDecoded ==
    /\ cfg.kind = "codec" /\ cfg.form = "chain"
    /\ Len(decode_results) >= 1

ChainBothDecoded == ChainDecoded /\ Len(decode_results) = 2

\* C21: in a compact record the widths of the fields follow the flag bits:
\* whatever the three width bits are, the body offset (32-bit iff bit 31), the
\* uncompressed size (32-bit iff bit 30) and the on-disk size of a compressed
\* file (32-bit iff bit 29) are decoded as the values the record stores.
C21_WidthsFollowFlagBits ==
    ChainDecoded =>
        /\ decode_results[1].err = "none"
        /\ decode_results[1].entry.offset = cfg.e.offset
        /\ decode_results[1].entry.uncompressed_size = cfg.e.uncomp
        /\ cfg.e.method # 0 => decode_results[1].entry.size = cfg.e.size

\* A compressed file's record with bits 29 = 1, 30 = 0, 31 = 1 has been
\* decoded: offset and on-disk size from 32 bits, uncompressed size from 64.
C21_Witness ==
    /\ ChainDecoded
    /\ cfg.widths = [size |-> TRUE, uncomp |-> FALSE, offset |-> TRUE]
    /\ cfg.e.method # 0
    /\ decode_results[1].err = "none"
    /\ decode_results[1].entry.offset = 70000
    /\ decode_results[1].entry.size = cfg.e.size
    /\ decode_results[1].entry.uncompressed_size = 12

\* Length of a compact record up to and including the uncompressed size.
CompactHeadSize(widths) ==
    4 + CompactWidth(widths.offset) + CompactWidth(widths.uncomp)

\* C22: a compact record is read as offset, uncompressed size and then,
\* exactly when the method is non-zero and whatever the block count, the
\* on-disk size, the 32-bit chunk size and one pair per block; nothing more
\* is read when the method is zero.
C22_CompressedRecordReadsSizeChunkAndPairs ==
    ChainDecoded =>
        /\ decode_results[1].err = "none"
        /\ IF cfg.e.method # 0
           THEN /\ decode_results[1].entry.size = cfg.e.size
                /\ decode_results[1].entry.block_size = cfg.e.chunk
                /\ decode_results[1].entry.entry_size =
                       CompactHeadSize(cfg.widths) + CompactWidth(cfg.widths.size)
                         + 4 + 8 * Len(cfg.e.blocks)
           ELSE decode_results[1].entry.entry_size = CompactHeadSize(cfg.widths)

\* What the decoder does: the chunk size and the pairs are read when the
\* method is non-zero and the block count is positive.
ChunkReadWhenBlocksDeclared ==
    ChainDecoded /\ (cfg.e.method = 0 \/ cfg.e.blocks # << >>) =>
        C22_CompressedRecordReadsSizeChunkAndPairs

\* C23: a record is decoded in full form exactly when the low 6 bits of its
\* flags are 0x3F; the method of a full-form record is its method field, its
\* 16-byte block pairs are read exactly when that method is non-zero, as many
\* as bits 7..17 of the flags tell, and they are part of the decoded entry.
C23_FullFormCarriesBlockPairs ==
    ChainBothDecoded =>
        /\ decode_results[1].err = "none" /\ decode_results[2].err = "none"
        /\ ~decode_results[1].entry.full_entry
        /\ decode_results[2].entry.full_entry
        /\ decode_results[2].entry.compression = cfg.e.method
        /\ decode_results[2].entry.entry_size =
               FULL_FIXED_SIZE
                 + (IF cfg.e.method # 0 THEN 16 * Len(cfg.e.blocks) ELSE 0)
        /\ (cfg.e.method # 0 /\ cfg.e.blocks # << >>) =>
               /\ "blocks" \in DOMAIN decode_results[2].entry
               /\ decode_results[2].entry.blocks = cfg.e.blocks

\* What the decoder does: the form, the method and the pairs consumed are as
\* stated; the entry it returns has no field for the pairs.
FullFormReadsBlockPairs ==
    ChainBothDecoded =>
        /\ decode_results[1].err = "none" /\ decode_results[2].err = "none"
        /\ ~decode_results[1].entry.full_entry
        /\ decode_results[2].entry.full_entry
        /\ decode_results[2].entry.compression = cfg.e.method
        /\ decode_results[2].entry.entry_size =
               FULL_FIXED_SIZE
                 + (IF cfg.e.method # 0 THEN 16 * Len(cfg.e.blocks) ELSE 0)
        /\ "blocks" \notin DOMAIN decode_results[2].entry

\* C24: for both forms entry_size is the encoded length of the record, so
\* that byte_offset + entry_size is the position of the next record.
C24_EntrySizeIsRecordLength ==
    ChainBothDecoded =>
        /\ decode_results[1].err = "none" /\ decode_results[2].err = "none"
        /\ decode_results[1].entry.entry_size =
               Len(CompactFormatBytes(cfg.e, cfg.widths))
        /\ decode_results[2].entry.entry_size = Len(FullRecordBytes(cfg.e))

\* ------------------------------------------------------------------------
\* Properties of read_pak_index
\* ------------------------------------------------------------------------

\* The directory block of container c as it lies in the file, and whether
\* the index describes one of positive length.
DirBlockSize(c) == Len(Sealed(DirPlainBytes(c), c.encrypted))

DirBlockPresent(c) == c.has_full_dir # 0 /\ DirBlockSize(c) > 0

\* The index of a directory container has been parsed.
DirIndexParsed == cfg.kind = "dir" /\ pc = "index_return"

\* C11: the directory block is read at its offset in the file and handed to
\* the decoder exactly when the index holds its descriptor and its length is
\* positive, whatever its offset; when the descriptor is absent the listing
\* is empty and mount point, entry count and table are still returned.
C11_DirBlockReadWhenDescribed ==
    DirIndexParsed =>
        IF DirBlockPresent(cfg)
        THEN /\ \E k \in 1..Len(io_log) :
                   io_log[k] = Read(Len(cfg.body), DirBlockSize(cfg))
             /\ dir_stream # << >>
        ELSE /\ dir_stream = << >>
             /\ dir_entries = << >>
             /\ mount_point = cfg.mount
             /\ num_entries = cfg.num_entries
             /\ encoded_data = TableBytes(cfg.records, 0)

\* The payload bytes the mount point's length field declares, and whether
\* they reach past the end of the index buffer, which holds index_size bytes
\* (the decrypted buffer is as long as the bytes read).
MountPayload(c) ==
    IF c.mount_declared >= 0 THEN c.mount_declared
    ELSE IF c.mount_declared < -(INT_MAX \div 2) THEN INT_MAX
    ELSE 2 * (-c.mount_declared)

MountOverruns == cfg.kind = "index" /\ MountPayload(cfg) > pak_info.index_size - 4

\* read_pak_index has parsed, or tried to parse, the index of an index
\* container.
IndexParseDone ==
    /\ cfg.kind = "index"
    /\ pc \notin {"start", "read_index"}
    /\ pak_info.encrypted => HAS_PYCRYPTODOME

C13_PlainContainerIsNeverDecrypted ==
    (prog = "pak_reader" /\ pc # "start" /\ status # "crashed"
        /\ ~pak_info.encrypted) =>
        /\ dir_stream # << >> =>
               \E k \in 1..Len(io_log) :
                   /\ io_log[k].op = "read"
                   /\ dir_stream = StreamRead(pak, io_log[k].at, io_log[k].arg)
        /\ \A k \in 1..Len(outcomes) :
               outcomes[k].io # << >> =>
                   /\ outcomes[k].err # "ImportError"
                   /\ outcomes[k].via = "extract_file" =>
                          outcomes[k].data =
                              StreamRead(pak, outcomes[k].dec.entry.offset,
                                         outcomes[k].dec.entry.size)

\* C14: aes_decrypt_ecb never ends in an error of its own: no call of it,
\* on the index, on the directory block or on the content of an entry, ends
\* main or the handling of an entry with an exception it raised.
C14_DecryptNeverRaises ==
    /\ exc # "ImportError"
    /\ \A k \in 1..Len(outcomes) : outcomes[k].err # "ImportError"

\* ------------------------------------------------------------------------
\* Properties of extract_file
\* ------------------------------------------------------------------------

\* C15: two calls of extract_file with the same entry on the unchanged file
\* end alike, with the same bytes or the same exception, whatever the cursor
\* each of them found.
C15_SameEntrySameBytes ==
    \A i, j \in 1..Len(returns) :
        returns[i].entry = returns[j].entry =>
            /\ returns[i].err = returns[j].err
            /\ returns[i].data = returns[j].data

C15_Witness ==
    \E i, j \in 1..Len(returns) :
        /\ i < j
        /\ returns[i].entry = returns[j].entry
        /\ returns[i].cur # returns[j].cur
        /\ returns[i].err = "none"
        /\ returns[i].data # << >>
        /\ returns[j].data = returns[i].data

\* C17: on handles of their own, or on one handle with the seek+read pairs
\* entered one at a time, every call ends under every interleaving as the
\* same call made alone does.
C17_InterleavedAsAlone ==
    \A i \in 1..Len(returns) :
        /\ returns[i].err = extract_file(pak, 0, returns[i].entry, HAS_PYCRYPTODOME).err
        /\ returns[i].data = extract_file(pak, 0, returns[i].entry, HAS_PYCRYPTODOME).data

\* Two calls on the shared handle that overlapped (both found the cursor
\* where it started) and returned the content of two different entries.
C17_Witness ==
    /\ cfg.kind = "calls" /\ cfg.shared
    /\ Len(returns) >= 2
    /\ returns[1].caller = 2 /\ returns[2].caller = 1
    /\ returns[1].cur = returns[2].cur
    /\ returns[1].entry.offset # returns[2].entry.offset
    /\ returns[1].err = "none" /\ returns[2].err = "none"
    /\ returns[1].data # << >> /\ returns[2].data # << >>
    /\ returns[1].data # returns[2].data

\* ------------------------------------------------------------------------
\* Properties of the --extract loop
\* ------------------------------------------------------------------------

\* The matches whose content was written, among the first n handled.
RECURSIVE WrittenAmong(_)
WrittenAmong(n) ==
    IF n = 0 THEN 0
    ELSE WrittenAmong(n - 1) + (IF outcomes[n].kind = "OK" THEN 1 ELSE 0)

\* C16: a failure of one entry does not end the --extract loop: the matches
\* are handled one after the other, main returns only when every match has
\* been handled, and extracted counts the matches whose content was
\* written, which are never more than the matches.
C16_LoopSurvivesEntryFailure ==
    (prog = "pak_reader" /\ matches # << >>) =>
        /\ pc = "extract_loop" => (status = "running" /\ Len(outcomes) = mi - 1)
        /\ pc = "done" => (status = "returned" /\ Len(outcomes) = Len(matches))
        /\ \A k \in 1..Len(outcomes) : outcomes[k].entry = matches[k]
        /\ extracted = WrittenAmong(Len(outcomes))
        /\ extracted = Len(out_files)
        /\ extracted <= Len(matches)

C16_Witness ==
    /\ prog = "pak_reader" /\ pc = "done" /\ status = "returned"
    /\ Len(matches) = 2 /\ Len(outcomes) = 2
    /\ outcomes[1].kind = "ERROR"
    /\ outcomes[1].dec.err = "struct.error"
    /\ outcomes[2].kind = "OK"
    /\ extracted = 1

\* ------------------------------------------------------------------------
\* Properties of the listing
\* ------------------------------------------------------------------------

\* C18: decoding and extracting leave the listing as read_pak_index
\* returned it: once main holds the listing, every entry keeps the state it
\* was produced in (no decoded entry is kept in it), whatever has been
\* decoded or extracted since, and the encoded table keeps its bytes.
C18_ListingUnchangedByExtraction ==
    (prog = "pak_reader"
        /\ (pc \in {"main_ops", "extract_loop"}
              \/ (pc = "done" /\ status = "returned" /\ ~NoOperation))) =>
        /\ \A i \in 1..Len(dir_entries) :
               dir_entries[i] = PakDirectoryEntry(dir_entries[i].path,
                                                  dir_entries[i].encoded_offset)
        /\ \E raw \in {StreamRead(pak, pak_info.index_offset, pak_info.index_size)} :
               encoded_data = ParsePrimaryIndex(IF pak_info.encrypted
                                                THEN aes_decrypt_ecb(raw)
                                                ELSE raw).encoded_data

\* ------------------------------------------------------------------------
\* Properties of the save editors
\* ------------------------------------------------------------------------

\* The content the save file had when the session started.
SessionStart == SaveBytes(cfg.save)

\* The seconds a backup file exists for.
Backups == {t \in DOMAIN backup_files : backup_files[t] # None}

\* edit_stats: as long as no backup has been made the save file is as the
\* session found it and there is no backup file; from then on there is
\* exactly one, and it holds the content the save had at the start.
OneBackupOfTheStart ==
    IF backup_created
    THEN \E t \in Backups : Backups = {t} /\ backup_files[t] = SessionStart
    ELSE Backups = {} /\ save_file = SessionStart

\* A step in which an editor confirms an edit or the save file changes.
EditStep == edits' # edits \/ save_file' # save_file

\* C19: every write to the save file is preceded by a backup of the file as
\* it was before that write: a step of edit_profession that applies a change
\* leaves the file as it was before the step in the backup of that second,
\* and a step of edit_stats that applies an edit leaves the backup made;
\* edit_stats makes it once, before the first write, so that at every moment
\* of a session the one backup holds the content the save had at the start.
C19_BackupPrecedesEveryWrite ==
    /\ [](prog \in {"edit_stats", "edit_stats_v1"} => OneBackupOfTheStart)
    /\ [][(prog \in {"edit_stats", "edit_stats_v1"} /\ EditStep)
             => backup_created']_vars
    /\ [][(prog = "edit_profession" /\ EditStep)
             => backup_files'[now'] = save_file]_vars

C19_Witness ==
    /\ prog = "edit_stats"
    /\ edits = MaxEdits
    /\ last_edit.op = "profession"
    /\ now = MaxClock
    /\ find_players(save_file)[1].stats["level"].value # cfg.save.level
    /\ Len(save_file) # Len(SessionStart)
    /\ backup_created
    /\ backup_files[now] = SessionStart

\* C20: a stat edit is a fixed-size overwrite in place: every call of
\* apply_stat_change, for a stat located in the data and a number typed by
\* the user, returns, and the data it returns and writes has the length of
\* the data it was given and differs from it at most in the 4 bytes at the
\* offset of the stat.
C20_StatEditIsInPlace ==
    [][(prog \in {"edit_stats", "edit_stats_v1"} /\ edits' # edits
          /\ last_edit'.op = "stat") =>
          /\ status' = "running"
          /\ last_edit'.err = "none"
          /\ save_file' = save_data'
          /\ Len(save_data') = Len(save_data)
          /\ \A i \in 1..Len(save_data) :
                (i <= last_edit'.offset \/ i > last_edit'.offset + 4)
                    => save_data'[i] = save_data[i]]_vars

\* The same for the calls that return.
StatEditIsInPlaceWhenItReturns ==
    [][(prog \in {"edit_stats", "edit_stats_v1"} /\ edits' # edits
          /\ last_edit'.op = "stat" /\ last_edit'.err = "none") =>
          /\ save_file' = save_data'
          /\ Len(save_data') = Len(save_data)
          /\ \A i \in 1..Len(save_data) :
                (i <= last_edit'.offset \/ i > last_edit'.offset + 4)
                    => save_data'[i] = save_data[i]]_vars

\* The directory loop of read_pak_index is under way.
InDirLoop == pc \in {"dir_count", "dir_next", "file_next"}

\* C30: the decoding of the directory block ends, whatever counts the block
\* declares: every iteration of the directory loop and of the file loop
\* either consumes at least 4 bytes of the block, of which the cursor never
\* goes past the end, or ends the decode; and the loop is left.
C30_DirDecodeTerminates ==
    /\ [][(DirHeader \/ DirFile) =>
            (dpos' >= dpos + 4 \/ ~InDirLoop')]_vars
    /\ [](InDirLoop => dpos <= Len(dir_stream))
    /\ (InDirLoop ~> ~InDirLoop)

\* The decode of a block whose directory count is the largest 32-bit value
\* has ended, with the files of the block listed.
C30_Witness ==
    /\ cfg.kind = "counts" /\ cfg.damage.value = INT_MAX /\ cfg.damage.at = 0
    /\ pc = "index_return" /\ warned
    /\ dpos = Len(dir_stream)
    /\ Len(dir_entries) = 2

\* ------------------------------------------------------------------------
\* Properties of the primary index
\* ------------------------------------------------------------------------

\* read_pak_index has parsed the primary index of a container of the table
\* length family (every one of them has a mount point).
TableIndexParsed == cfg.kind = "table" /\ mount_point # << >>

\* The table the container was laid out with, and the length its index
\* declares for it.
TableOf(c) == TableBytes(c.records, Len(pak))

\* Sequence b begins with sequence a.
BeginsWith(b, a) == Len(a) <= Len(b) /\ SubSeq(b, 1, Len(a)) = a

\* The fields behind the path-hash descriptor are read at their positions:
\* the directory descriptor leads to the directory block, the table starts
\* where the container has it.
LaterFieldsInPlace ==
    /\ mount_point = cfg.mount
    /\ num_entries = cfg.num_entries
    /\ Len(dir_stream) = DirBlockSize(cfg)
    /\ SubSeq(dir_stream, 1, Len(DirPlainBytes(cfg))) = DirPlainBytes(cfg)
    /\ (BeginsWith(TableOf(cfg), encoded_data)
          \/ BeginsWith(encoded_data, TableOf(cfg)))

\* C26: the table read_pak_index keeps is the declared number of bytes that
\* follow the length field, whatever the declared value is, and the fields
\* behind the path-hash descriptor are read 36 bytes further on exactly when
\* its flag is non-zero.
C26_TableHasDeclaredLength ==
    TableIndexParsed =>
        /\ Len(encoded_data) = TableDeclared(cfg, TableOf(cfg))
        /\ LaterFieldsInPlace

\* What read_pak_index does: a declared length the index holds is the length
\* of the table, and the path-hash descriptor shifts the later fields as
\* stated for every declared length.
TableOfDeclaredLengthWhenHeld ==
    TableIndexParsed =>
        /\ LaterFieldsInPlace
        /\ cfg.table_declared \in {"true", "zero", "short"} =>
               Len(encoded_data) = TableDeclared(cfg, TableOf(cfg))

\* ------------------------------------------------------------------------
\* Properties of utils.py
\* ------------------------------------------------------------------------

\* The calls of read_fstring made so far, and those of aes_decrypt_ecb.
FStringResults ==
    {util_results[k] :
        k \in {i \in 1..Len(util_results) : util_results[i].call.fn = "read_fstring"}}

AesResults ==
    {util_results[k] :
        k \in {i \in 1..Len(util_results) :
                  util_results[i].call.fn = "aes_decrypt_ecb"}}

\* The length L a call finds at the position of its stream, and the number
\* of bytes the FString of that length takes after it.
DeclaredLength(c) == UnpackI32(StreamRead(c.data, c.pos, 4))

DeclaredBytes(c) ==
    IF DeclaredLength(c) < 0 THEN 2 * (-DeclaredLength(c)) ELSE DeclaredLength(c)

\* The stream holds the length and all the bytes it declares.
HoldsDeclared(c) ==
    /\ Len(c.data) >= c.pos + 4
    /\ Len(c.data) >= c.pos + 4 + DeclaredBytes(c)

\* C25: read_fstring follows the length prefix L: for L = 0 it returns the
\* empty text and consumes 4 bytes; for L > 0 it consumes 4 + L bytes and
\* returns L - 1 characters, all but the terminator; for L < 0 it consumes
\* 4 + 2 * (-L) bytes and returns all the code units but the last.
C25_FStringFollowsLengthPrefix ==
    \A r \in FStringResults :
        HoldsDeclared(r.call) =>
            /\ r.err = "none"
            /\ r.pos = r.call.pos + 4 + DeclaredBytes(r.call)
            /\ DeclaredLength(r.call) = 0 => r.val = << >>
            /\ DeclaredLength(r.call) > 0 => Len(r.val) = DeclaredLength(r.call) - 1
            /\ DeclaredLength(r.call) < 0 =>
                   r.val = Utf16Units(SubSeq(r.call.data, r.call.pos + 5,
                                             r.call.pos + 2 + DeclaredBytes(r.call)), 1)

\* What read_fstring does on a stream that holds the declared bytes: it
\* consumes them all, and returns the text without its trailing nulls.
FStringConsumesDeclaredBytes ==
    \A r \in FStringResults :
        HoldsDeclared(r.call) =>
            /\ r.err = "none"
            /\ r.pos = r.call.pos + 4 + DeclaredBytes(r.call)
            /\ Len(r.val) <= Max(DeclaredBytes(r.call) - 1, 0)
            /\ (r.val = << >> \/ r.val[Len(r.val)] # 0)

\* C27: a call of aes_decrypt_ecb on n bytes hands the cipher the input
\* followed by zero bytes only, up to the smallest multiple of 16 that is at
\* least n, and returns n bytes: each whole block of the input decrypted on
\* its own, and of the last, partial block padded with zeros the first bytes.
C27_PadsToBlockAndTruncates ==
    \A r \in AesResults :
        r.err = "none" =>
            LET n == Len(r.call.data)
                whole == n \div AES_BLOCK
            IN  /\ Len(r.padded) % AES_BLOCK = 0
                /\ Len(r.padded) >= n /\ Len(r.padded) < n + AES_BLOCK
                /\ SubSeq(r.padded, 1, n) = r.call.data
                /\ \A i \in (n + 1)..Len(r.padded) : r.padded[i] = 0
                /\ Len(r.val) = n
                /\ \A k \in 0..(whole - 1) :
                       SubSeq(r.val, k * AES_BLOCK + 1, (k + 1) * AES_BLOCK) =
                           DecryptBlock(SubSeq(r.call.data, k * AES_BLOCK + 1,
                                               (k + 1) * AES_BLOCK))
                /\ SubSeq(r.val, whole * AES_BLOCK + 1, n) =
                       SubSeq(DecryptBlock(SubSeq(r.call.data, whole * AES_BLOCK + 1, n)
                                             \o Zeros(AES_BLOCK - (n % AES_BLOCK))),
                              1, n % AES_BLOCK)

\* 17 bytes have been decrypted: a whole block and one byte of a second,
\* which 15 zero bytes completed.
C27_Witness ==
    \E r \in AesResults :
        /\ r.err = "none"
        /\ Len(r.call.data) = 17 /\ Len(r.padded) = 32 /\ Len(r.val) = 17
        /\ r.val # r.call.data

\* ------------------------------------------------------------------------
\* Properties of the compressed extraction
\* ------------------------------------------------------------------------

\* The entries of outcomes where extract_compressed_file was called on an
\* inline header that lies within the file: the .uasset of extract_enums,
\* decoded as a full-form record or with a compression method.
InlineCalls ==
    {k \in 1..Len(outcomes) :
        /\ outcomes[k].who = "uasset"
        /\ outcomes[k].dec.err = "none"
        /\ \/ outcomes[k].dec.entry.full_entry
           \/ outcomes[k].dec.entry.compression # 0
        /\ LET o == outcomes[k].dec.entry.offset
           IN  /\ o >= 0 /\ o + INLINE_FIXED_SIZE <= Len(pak)
               /\ InlineHeader(pak, o).block_count \in 0..Len(pak)
               /\ InlineHeader(pak, o).data_offset <= Len(pak)}

InlineOf(k) == InlineHeader(pak, outcomes[k].dec.entry.offset)

\* decode_entry's full-form branch on the bytes of the inline header of
\* outcome k, the flags word in front of them holding the block count.
FullFormOf(k) ==
    LET o == outcomes[k].dec.entry.offset
        fl == FlagsBytes(63, FALSE, InlineOf(k).block_count, FALSE, FALSE, FALSE)
    IN  decode_entry(fl \o Slice(pak, o, Len(pak)), 0)

\* C28: on the bytes of the inline header extract_compressed_file and the
\* full-form branch of decode_entry obtain the same offset, on-disk size,
\* uncompressed size, method, encrypted flag and chunk size, and consume the
\* same number of bytes before the compressed payload.
C28_InlineHeaderParsedAsFullForm ==
    \A k \in InlineCalls :
        LET h == InlineOf(k)
            d == FullFormOf(k)
        IN  /\ d.err = "none"
            /\ d.entry.offset = h.offset
            /\ d.entry.size = h.comp_size
            /\ d.entry.uncompressed_size = h.uncomp_size
            /\ d.entry.compression = h.comp_method
            /\ d.entry.encrypted = (h.b_encrypted % 2 = 1)
            /\ d.entry.block_size = h.b_block_size
            /\ d.entry.entry_size - 4 = h.data_offset - outcomes[k].dec.entry.offset

\* What the two parsers share: the four fields in front of the hash.  The
\* inline parser then reads a 4-byte block count and the pairs before the
\* encrypted flag and the chunk size, and so consumes 4 bytes more.
InlineHeaderSharesLeadingFields ==
    \A k \in InlineCalls :
        LET h == InlineOf(k)
            d == FullFormOf(k)
        IN  d.err = "none" =>
                /\ d.entry.offset = h.offset
                /\ d.entry.size = h.comp_size
                /\ d.entry.uncompressed_size = h.uncomp_size
                /\ d.entry.compression = h.comp_method
                /\ d.entry.entry_size = h.data_offset - outcomes[k].dec.entry.offset

\* The bytes of block b of the inline header h at o, decrypted when the
\* header's encrypted flag is set.
BlockSpan(f, o, h, b) ==
    LET raw == Slice(f, o + h.blocks[b][1], o + h.blocks[b][2])
    IN  IF h.b_encrypted % 2 = 1 THEN aes_decrypt_ecb(raw) ELSE raw

\* The in-order concatenation of the per-block decompressions.
BlockwiseData(f, o, h) ==
    Concat([b \in 1..Len(h.blocks) |->
               LET z == Inflate(BlockSpan(f, o, h, b))
               IN  IF z.err = "none" THEN z.data ELSE << >>])

\* The calls on a header with the supported method whose blocks lie in the
\* file after the header.
BlockCalls ==
    {k \in InlineCalls :
        /\ InlineOf(k).comp_method = 1
        /\ \A b \in 1..Len(InlineOf(k).blocks) :
               LET span == InlineOf(k).blocks[b]
                   o == outcomes[k].dec.entry.offset
               IN  /\ o + span[1] >= InlineOf(k).data_offset
                   /\ span[1] <= span[2]
                   /\ o + span[2] <= Len(pak)}

\* C29: compressed extraction returns the in-order concatenation of the
\* per-block decompressions, each block read from its own byte range and
\* decrypted first when the inline header's encrypted flag is set.
C29_OutputIsBlockwiseConcatenation ==
    \A k \in BlockCalls :
        /\ outcomes[k].kind = "OK"
        /\ outcomes[k].data =
               BlockwiseData(pak, outcomes[k].dec.entry.offset, InlineOf(k))

\* What extract_compressed_file does instead: one read of comp_size bytes at
\* data_offset, decompressed as one stream whatever the block list and the
\* encrypted flag say.
OutputIsOneInflatedRead ==
    \A k \in BlockCalls :
        LET h == InlineOf(k)
            z == Inflate(StreamRead(pak, h.data_offset, h.comp_size))
        IN  IF z.err = "none"
            THEN outcomes[k].kind = "OK" /\ outcomes[k].data = z.data
            ELSE outcomes[k].kind = "ERROR" /\ outcomes[k].err = z.err

\* An encrypted block has been handed to the decompressor undecrypted.
BlockCasesReached ==
    /\ cfg.kind = "nested"
    /\ \E k \in BlockCalls :
           /\ InlineOf(k).b_encrypted = 1
           /\ outcomes[k].err = "zlib.error"

====
